---- MODULE Spec2Model ----
(***************************************************************************)
(* A model of the R_t inference pipeline of pyseir/inference/infer_rt.py:  *)
(* the outlier filter (replace_outliers), the Gaussian smoothing and       *)
(* truncation (apply_gaussian_smoothing), the Bayesian posterior           *)
(* recurrence (get_posteriors), the credible intervals                     *)
(* (highest_density_interval) and the per-kind result table of infer_all.  *)
(*                                                                         *)
(* Number representation.                                                  *)
(*  - Observation series hold counts in HALVES (the integer 11 is 5.5):    *)
(*    replace_outliers stores the mean of two neighbours, which is a       *)
(*    half-integer for integer counts.                                     *)
(*  - Smoothed series hold whole counts (the code rounds), or NaN.         *)
(*  - Probabilities are fixed-point integers with Scale = 1.0; a product   *)
(*    or quotient is truncated to 1/Scale, which stands for the finite     *)
(*    precision (and the underflow to zero) of IEEE doubles.               *)
(*  - NaN is an integer below every number of the model.                  *)
(***************************************************************************)
EXTENDS Integers, Sequences, FiniteSets, TLC

VARIABLES
    pc,             \* control point of the operation being run
    \* ---- replace_outliers called on its own (SpecOutliers)
    window,         \* local_lookback_window argument
    x_in,           \* the series as passed in
    x_out,          \* the series after the first pass (x, updated in place)
    changed_idx,    \* changed_idx of the first pass
    exc,            \* exception that escaped, or "none"
    x_again,        \* the series after a second pass over x_out
    changed_again,  \* changed_idx of the second pass
    \* ---- one engine run for one observation kind (Spec)
    obs_dates,      \* self.case_dates
    obs_times,      \* self.times
    obs_values,     \* self.observed_new_cases (halves)
    dates,          \* dates returned by apply_gaussian_smoothing
    times,          \* times returned by apply_gaussian_smoothing
    full_smoothed,  \* smoothed series before truncation
    timeseries,     \* smoothed series returned by apply_gaussian_smoothing
    posteriors,     \* posteriors DataFrame: one column (sequence over r_list) per date
    day,            \* position of the Bayes loop in timeseries
    log_likelihood, \* running sum of log(denominator)
    self_log_likelihood, \* self.log_likelihood
    ret,            \* value returned by get_posteriors
    df,             \* per-kind table built by infer_all
    \* ---- align_time_series called on its own (SpecAlign)
    series_a,       \* reference series
    series_b,       \* series to shift
    shift,          \* value returned by align_time_series
    \* ---- infer_all over every available observation kind (SpecInfer)
    engine,         \* the series fields of the RtInferenceEngine (self)
    available_timeseries, \* list returned by get_available_timeseries
    kind_pos,       \* position in available_timeseries of the next kind
    timeseries_type,\* kind of the loop iteration that ran last
    df_all,         \* merged table, None before the first result
    lag,            \* locals of the lag block of the last iteration, or None
    \* ---- the objects behind the argument of replace_outliers (SpecOutliers)
    x_series,       \* the pandas.Series passed as x, as it is now
    x_array,        \* the array the Series was built from, as it is now
    \* ---- run_state: run_for_fips over a batch of geographies (SpecBatch)
    all_fips,       \* the geographies of the batch, in the order they are run
    fips_pos,       \* position in all_fips of the next geography
    rt_inferences,  \* what run_for_fips returned, one entry per geography run
    \* ---- two engine runs on separate workers (SpecWorkers)
    w_engine,       \* per worker: the series fields of its engine
    w_pc,           \* per worker: control point of its infer_all
    w_available,    \* per worker: available_timeseries
    w_pos,          \* per worker: position of the next kind
    w_df_all,       \* per worker: merged table so far
    files,          \* working directory: per file name, last content and writers
    \* ---- run_backtest (SpecBacktest)
    observations,   \* observations of the geography: times, new_cases, new_deaths
    loaded,         \* hospital data a new ModelFitter(fips) holds
    observation_days_blinded, \* d of the loop of run_backtest
    mf,             \* the ModelFitter of the current run_model_fitter_for_backtest
    fit_calls,      \* outcomes of the calls of mf.fit() for the current d
    projection,     \* projection of the current d, or None
    historical_projections \* projections recorded by run_backtest

vars == <<pc, window, x_in, x_out, changed_idx, exc, x_again, changed_again,
          obs_dates, obs_times, obs_values, dates, times, full_smoothed,
          timeseries, posteriors, day, log_likelihood, self_log_likelihood,
          ret, df, series_a, series_b, shift,
          engine, available_timeseries, kind_pos, timeseries_type, df_all, lag,
          x_series, x_array, all_fips, fips_pos, rt_inferences,
          w_engine, w_pc, w_available, w_pos, w_df_all, files,
          observations, loaded, observation_days_blinded, mf, fit_calls,
          projection, historical_projections>>

outlierVars == <<window, x_in, x_out, changed_idx, exc, x_again, changed_again>>

engineVars == <<obs_dates, obs_times, obs_values, dates, times, full_smoothed,
                timeseries, posteriors, day, log_likelihood,
                self_log_likelihood, ret, df>>

alignVars == <<series_a, series_b, shift>>

inferVars == <<engine, available_timeseries, kind_pos, timeseries_type, df_all, lag>>

aliasVars == <<x_series, x_array>>

batchVars == <<all_fips, fips_pos, rt_inferences>>

workerVars == <<w_engine, w_pc, w_available, w_pos, w_df_all, files>>

backtestVars == <<observations, loaded, observation_days_blinded, mf, fit_calls,
                  projection, historical_projections>>

\* The variables of the drivers around one engine run.
driverVars == <<batchVars, workerVars, backtestVars>>

(***************************************************************************)
(* Generic helpers                                                         *)
(***************************************************************************)
RECURSIVE SeqSum(_)
SeqSum(s) == IF s = <<>> THEN 0 ELSE Head(s) + SeqSum(Tail(s))

RECURSIVE SeqSumSq(_)
SeqSumSq(s) == IF s = <<>> THEN 0 ELSE Head(s) * Head(s) + SeqSumSq(Tail(s))

\* All sequences over S of length lo..hi.
SeqsOf(S, lo, hi) == UNION {[1..n -> S] : n \in lo..hi}

\* A count as stored in an observation series (halves).
Half(c) == 2 * c

\* numpy.nan
NaN == -1000000

\* None, as a value of a field that later holds a record.
NoValue == [is_none |-> TRUE]

\* align_time_series is not being run on its own.
AlignIdle == series_a = <<>> /\ series_b = <<>> /\ shift = NoValue

\* infer_all is not being run over the kinds of an engine.
InferIdle ==
    /\ engine = NoValue /\ available_timeseries = <<>> /\ kind_pos = 0
    /\ timeseries_type = "" /\ df_all = NoValue /\ lag = NoValue

AliasIdle == x_series = <<>> /\ x_array = <<>>

BatchIdle == all_fips = <<>> /\ fips_pos = 0 /\ rt_inferences = <<>>

WorkersIdle ==
    /\ w_engine = <<>> /\ w_pc = <<>> /\ w_available = <<>>
    /\ w_pos = <<>> /\ w_df_all = <<>> /\ files = {}

BacktestIdle ==
    /\ observations = NoValue /\ loaded = NoValue
    /\ observation_days_blinded = 0 /\ mf = NoValue /\ fit_calls = <<>>
    /\ projection = NoValue /\ historical_projections = <<>>

DriversIdle == BatchIdle /\ WorkersIdle /\ BacktestIdle

(***************************************************************************)
(* InferRtConstants                                                        *)
(***************************************************************************)
LOCAL_LOOKBACK_WINDOW == 14
Z_THRESHOLD == 10
MIN_MEAN_TO_CONSIDER == 5

(***************************************************************************)
(* replace_outliers                                                        *)
(***************************************************************************)
\* The window of the W values before (1-based) position i.
Lookback(x, W, i) == SubSeq(x, i - W, i - 1)

\* z_score[i] > z_threshold, where m and s are the rolling mean and the
\* population standard deviation of the W previous values (min_periods = W,
\* shifted by one), and z = (x - m) / (s + EPSILON).
\* With D = W*x[i] - sum(w) and V = W*sum(w^2) - sum(w)^2 we have
\* x - m = D/(2W) and s = sqrt(V)/(2W) (halves), so z > T is
\* D > T*sqrt(V) + 2*W*T*EPSILON.  D and V are integers: for the magnitudes
\* of this model that is D > 0 /\ D^2 > T^2 * V (EPSILON = 1e-8 only keeps
\* the quotient defined when s = 0).  Positions without a full window have
\* z = NaN, and NaN > T is false.
ZScoreAbove(x, W, T, i) ==
    /\ i > W
    /\ LET w == Lookback(x, W, i)
           D == W * x[i] - SeqSum(w)
           V == W * SeqSumSq(w) - SeqSum(w) * SeqSum(w)
       IN  D > 0 /\ D * D > T * T * V

\* np.where(z_score > z_threshold)[0], ascending.
RECURSIVE PossibleChangesFrom(_, _, _, _)
PossibleChangesFrom(x, W, T, i) ==
    IF i > Len(x) THEN <<>>
    ELSE (IF ZScoreAbove(x, W, T, i) THEN <<i>> ELSE <<>>)
         \o PossibleChangesFrom(x, W, T, i + 1)

PossibleChanges(x, W, T) == PossibleChangesFrom(x, W, T, 1)

\* m[idx] > min_mean_to_consider: the guard is strict.
MeanGuard(x, W, mm, i) == SeqSum(Lookback(x, W, i)) > Half(W * mm)

\* np.mean([a, b]) of two values in halves.
Mean2(a, b) == (a + b) \div 2

\* The loop over possible_changes_idx.  st.x is the series, updated in place;
\* x0 is the series as it was when m and z_score were computed.  x[idx + 1]
\* is a label lookup in a RangeIndex: past the end it raises KeyError, which
\* the handler for IndexError does not catch, so the exception escapes with
\* idx already appended to changed_idx and x[idx] not replaced.
RECURSIVE ReplaceLoop(_, _, _, _, _)
ReplaceLoop(st, cands, x0, W, mm) ==
    IF cands = <<>> \/ st.exc # "none" THEN st
    ELSE LET idx == Head(cands)
         IN  IF ~MeanGuard(x0, W, mm, idx)
             THEN ReplaceLoop(st, Tail(cands), x0, W, mm)
             ELSE IF idx + 1 > Len(st.x)
             THEN [st EXCEPT !.changed = Append(@, idx), !.exc = "KeyError"]
             ELSE ReplaceLoop(
                    [st EXCEPT !.changed = Append(@, idx),
                               !.x = [@ EXCEPT ![idx] = Mean2(st.x[idx - 1], st.x[idx + 1])]],
                    Tail(cands), x0, W, mm)

\* The loop of the mutant of replace_outliers: the z-score and the mean of
\* position i are taken from the series as replaced so far.
RECURSIVE RescoringLoop(_, _, _, _, _)
RescoringLoop(st, i, W, T, mm) ==
    IF i > Len(st.x) \/ st.exc # "none" THEN st
    ELSE IF ~(ZScoreAbove(st.x, W, T, i) /\ MeanGuard(st.x, W, mm, i))
    THEN RescoringLoop(st, i + 1, W, T, mm)
    ELSE IF i + 1 > Len(st.x)
    THEN [st EXCEPT !.changed = Append(@, i), !.exc = "KeyError"]
    ELSE RescoringLoop(
            [st EXCEPT !.changed = Append(@, i),
                       !.x = [@ EXCEPT ![i] = Mean2(st.x[i - 1], st.x[i + 1])]],
            i + 1, W, T, mm)

\* Mutant of replace_outliers: the z-score is computed inside the loop.
replace_outliers_rescoring(x, W, T, mm) ==
    RescoringLoop([x |-> x, changed |-> <<>>, exc |-> "none"], 1, W, T, mm)

replace_outliers(x, W, T, mm) ==
    ReplaceLoop([x |-> x, changed |-> <<>>, exc |-> "none"],
                PossibleChanges(x, W, T), x, W, mm)

(***************************************************************************)
(* Engine configuration (constructor arguments of RtInferenceEngine).      *)
(* The model runs the engine with a 5-day smoothing window of kernel width *)
(* 3, the grid r_list = linspace(0, 3, 4), process_sigma = 1 (one grid     *)
(* step) and serial_period = 1/ln(2), so that exp((r - 1)/serial_period)   *)
(* is 2^(r - 1).                                                           *)
(***************************************************************************)
window_size == 5
kernel_std == 3
r_list == <<0, 1, 2, 3>>
confidence_intervals == <<6800, 9500>>
smoothed_max_threshold == 5

\* datetime(2020, 1, 1) as a day number.
ref_date == 18262

\* 1.0 in fixed point.
Scale == 10000

Grid == 1..Len(r_list)

(***************************************************************************)
(* Floating point: products, quotients and sums with NaN                   *)
(***************************************************************************)
IsNaN(a) == a = NaN

Mul(a, b) == IF IsNaN(a) \/ IsNaN(b) THEN NaN ELSE (a * b) \div Scale

\* 0/0 is NaN.  (x/0 with x > 0 does not arise: the divisor is a sum of
\* non-negative terms that include x.)
Div(a, b) == IF IsNaN(a) \/ IsNaN(b) \/ b = 0 THEN NaN ELSE (a * Scale) \div b

\* numpy sum of an array: NaN if any entry is NaN.
RECURSIVE ArraySum(_)
ArraySum(v) ==
    IF v = <<>> THEN 0
    ELSE LET rest == ArraySum(Tail(v))
         IN  IF IsNaN(Head(v)) \/ IsNaN(rest) THEN NaN ELSE Head(v) + rest

\* np.sum of a pandas Series, which is Series.sum(skipna=True): NaN entries
\* are skipped, and the sum of an all-NaN Series is 0.
RECURSIVE SeriesSum(_)
SeriesSum(v) ==
    IF v = <<>> THEN 0
    ELSE (IF IsNaN(Head(v)) THEN 0 ELSE Head(v)) + SeriesSum(Tail(v))

\* v / v.sum()
Normalized(v) == [i \in DOMAIN v |-> Div(v[i], ArraySum(v))]

\* np.round (half to even) of the non-negative quotient num/den.
RoundHalfEven(num, den) ==
    LET q == num \div den
        r == num % den
    IN  IF 2 * r < den THEN q
        ELSE IF 2 * r > den THEN q + 1
        ELSE IF q % 2 = 0 THEN q ELSE q + 1

\* Python slice s[start:] for start <= 0 (start = 0 is the whole sequence).
SliceFrom(s, start) ==
    LET first == IF start < 0 THEN (IF Len(s) + start > 0 THEN Len(s) + start ELSE 0)
                 ELSE start
    IN  SubSeq(s, first + 1, Len(s))

(***************************************************************************)
(* apply_gaussian_smoothing                                                *)
(***************************************************************************)
\* scipy.signal.gaussian(window_size, std=kernel_std): exp(-n^2 / (2 std^2))
\* for n = -2 .. 2.
GaussianWindow == <<8007, 9460, 10000, 9460, 8007>>

\* Offset of a centered window.
CenterOffset == (window_size - 1) \div 2

\* Position of the series under weight j of the window centered at i.
WindowPos(i, j) == i + CenterOffset - window_size + j

\* timeseries.rolling(window_size, win_type="gaussian",
\*                    min_periods=kernel_std, center=True).mean().round()
\* at position i of x (halves): the weighted mean over the positions of the
\* window that exist, NaN when fewer than min_periods of them exist.
RollingGaussianMean(x, i) ==
    LET present == {j \in 1..window_size : WindowPos(i, j) \in 1..Len(x)}
        wx == [j \in 1..window_size |->
                 IF j \in present THEN GaussianWindow[j] * x[WindowPos(i, j)] ELSE 0]
        w  == [j \in 1..window_size |-> IF j \in present THEN GaussianWindow[j] ELSE 0]
    IN  IF Cardinality(present) < kernel_std THEN NaN
        ELSE RoundHalfEven(SeqSum(wx), Half(SeqSum(w)))

Smooth(x) == [i \in 1..Len(x) |-> RollingGaussianMean(x, i)]

\* Python max(smoothed): a NaN never compares greater or smaller, so the
\* result is NaN exactly when the first element is NaN.
RECURSIVE PyMaxFrom(_, _)
PyMaxFrom(cur, s) ==
    IF s = <<>> THEN cur
    ELSE PyMaxFrom(IF ~IsNaN(cur) /\ ~IsNaN(Head(s)) /\ Head(s) > cur THEN Head(s) ELSE cur,
                   Tail(s))

PyMax(s) == PyMaxFrom(Head(s), Tail(s))

\* nonzeros = [idx for idx, val in enumerate(smoothed) if val != 0] (NaN != 0).
NonZeros(s) == {i \in 1..Len(s) : s[i] # 0}


\* Mutant of IdxStart: a series that passes the threshold is kept whole.
IdxStartKeepsLeadingZeros(s, threshold) ==
    IF s = <<>> THEN 0
    ELSE IF ~IsNaN(PyMax(s)) /\ PyMax(s) < threshold THEN Len(s)
    ELSE 0

\* idx_start (0-based): the number of leading entries dropped.
IdxStart(s, threshold) ==
    IF s = <<>> THEN 0
    ELSE IF ~IsNaN(PyMax(s)) /\ PyMax(s) < threshold THEN Len(s)
    ELSE (CHOOSE i \in NonZeros(s) : \A j \in NonZeros(s) : i <= j) - 1

\* The kinds for which apply_gaussian_smoothing drops the first points.
HospitalizationTypes == {"current_hospitalizations", "new_hospitalizations"}

\* s[2:]
DropFirstTwo(s) == SubSeq(s, 3, Len(s))

\* s[:2]
FirstTwo(s) == SubSeq(s, 1, IF Len(s) < 2 THEN Len(s) ELSE 2)

\* apply_gaussian_smoothing for the series get_timeseries returned for a
\* kind: for a hospitalization kind dates[2:], times[:2], timeseries[2:]
\* replace the three; outliers are replaced (default window, threshold and
\* minimum mean), the result is smoothed and the smoothed series alone is
\* cut at idx_start; dates and times are returned as they are.
apply_gaussian_smoothing(kind, ds, ts, xs, threshold) ==
    LET hosp == kind \in HospitalizationTypes
        ro == replace_outliers(IF hosp THEN DropFirstTwo(xs) ELSE xs,
                               LOCAL_LOOKBACK_WINDOW, Z_THRESHOLD, MIN_MEAN_TO_CONSIDER)
        sm == Smooth(ro.x)
    IN  [exc |-> ro.exc,
         dates |-> IF hosp THEN DropFirstTwo(ds) ELSE ds,
         times |-> IF hosp THEN FirstTwo(ts) ELSE ts,
         full |-> sm,
         smoothed |-> IF ro.exc # "none" THEN <<>>
                      ELSE SubSeq(sm, IdxStart(sm, threshold) + 1, Len(sm))]

(***************************************************************************)
(* get_posteriors: likelihood, process matrix, priors                      *)
(***************************************************************************)
\* ln(2) in fixed point.
Ln2 == 6931

\* Smallest power of two that is not flushed to zero: 2^-14 < 1/Scale.
MinExponent == 14

\* np.log of a positive fixed-point value: the argument is scaled by powers
\* of two into (1/2, 1], where ln(1 - u) = -(u + u^2/2 + u^3/3 + ...).
RECURSIVE LogFixed(_)
LogFixed(z) ==
    IF z > Scale THEN LogFixed(z \div 2) + Ln2
    ELSE IF 2 * z <= Scale THEN LogFixed(2 * z) - Ln2
    ELSE LET u  == Scale - z
             u2 == (u * u) \div Scale
             u3 == (u2 * u) \div Scale
             u4 == (u3 * u) \div Scale
             u5 == (u4 * u) \div Scale
         IN  0 - (u + u2 \div 2 + u3 \div 3 + u4 \div 4 + u5 \div 5)

\* np.exp of a fixed-point value x <= 0: exp(x) = 2^-a * exp(-b) with
\* 0 <= b < ln 2; a result below 1/Scale underflows to 0.
RECURSIVE ExpFixed(_)
ExpFixed(x) ==
    IF x <= 0 - MinExponent * Ln2 THEN 0
    ELSE IF x <= 0 - Ln2 THEN ExpFixed(x + Ln2) \div 2
    ELSE LET b  == 0 - x
             b2 == (b * b) \div Scale
             b3 == (b2 * b) \div Scale
             b4 == (b3 * b) \div Scale
         IN  Scale - b + b2 \div 2 - b3 \div 6 + b4 \div 24

\* gammaln(k + 1) = ln(k!)
RECURSIVE LnFactorial(_)
LnFactorial(k) == IF k <= 1 THEN 0 ELSE LogFixed(k * Scale) + LnFactorial(k - 1)

\* ln(lam) for lam = k_prev * exp((r - 1)/serial_period) = k_prev * 2^(r - 1).
LnLam(kprev, i) == LogFixed(kprev * Scale) + (r_list[i] - 1) * Ln2

\* lam in fixed point.
Lam(kprev, i) == (kprev * Scale * 2^(r_list[i])) \div 2

\* sps.poisson.pmf(k, lam) = exp(k*ln(lam) - lam - gammaln(k + 1)); NaN when
\* k or lam is NaN; for lam = 0 the whole mass is on k = 0.
PoissonPmf(k, kprev, i) ==
    IF IsNaN(k) \/ IsNaN(kprev) THEN NaN
    ELSE IF kprev = 0 THEN (IF k = 0 THEN Scale ELSE 0)
    ELSE ExpFixed(k * LnLam(kprev, i) - Lam(kprev, i) - LnFactorial(k))

\* likelihoods[current_day]: the column over r_list.
Likelihood(k, kprev) == [i \in Grid |-> PoissonPmf(k, kprev, i)]

\* sps.norm(scale=process_sigma).pdf at a distance of d grid steps.
NormPdf(d) == <<3989, 2420, 540, 44>>[(IF d < 0 THEN -d ELSE d) + 1]

\* process_matrix / process_matrix.sum(axis=0): entry [i][j], each column j
\* divided by its own sum.
process_matrix ==
    [i \in Grid |-> [j \in Grid |->
        Div(NormPdf(i - j), ArraySum([h \in Grid |-> NormPdf(h - j)]))]]

\* process_matrix @ column (a numpy product: one NaN makes every entry NaN).
MatVec(col) == [i \in Grid |-> ArraySum([j \in Grid |-> Mul(process_matrix[i][j], col[j])])]

\* sps.gamma(a=2.5).pdf(r_list) and sps.gamma(a=2).pdf(r_list).
Gamma25Pdf == <<0, 2767, 2880, 1946>>
Gamma2Pdf == <<0, 3679, 2707, 1494>>

prior0 == Normalized(Gamma25Pdf)

reinit_prior == Normalized(Gamma2Pdf)

NaNColumn == [i \in Grid |-> NaN]

\* np.log of the denominator; log(0) is -inf.
Log(z) == IF z = 0 THEN [finite |-> FALSE, value |-> 0]
          ELSE [finite |-> TRUE, value |-> LogFixed(z)]

\* log_likelihood += np.log(denominator); -inf absorbs every later term.
AddLog(acc, z) ==
    IF ~acc.finite \/ ~Log(z).finite THEN [finite |-> FALSE, value |-> 0]
    ELSE [finite |-> TRUE, value |-> acc.value + Log(z).value]

\* (5a)-(5c): numerator and denominator of Bayes' rule for the day with
\* count k that follows a day with count kprev and posterior prev.
Numerator(prev, k, kprev) ==
    LET current_prior == MatVec(prev)
        likelihood == Likelihood(k, kprev)
    IN  [i \in Grid |-> Mul(likelihood[i], current_prior[i])]

Denominator(prev, k, kprev) == SeriesSum(Numerator(prev, k, kprev))


\* Mutant of BayesUpdate: the quotient is taken without testing the
\* denominator.
BayesUpdateUnguarded(prev, k, kprev) ==
    [i \in Grid |-> Div(Numerator(prev, k, kprev)[i], Denominator(prev, k, kprev))]

\* Mutant of BayesUpdate: a degenerate day restarts from the initial prior.
BayesUpdateRestartsFromPrior0(prev, k, kprev) ==
    IF Denominator(prev, k, kprev) = 0 THEN prior0
    ELSE [i \in Grid |-> Div(Numerator(prev, k, kprev)[i], Denominator(prev, k, kprev))]

\* The posterior of the day: the re-initial prior when the denominator is 0.
BayesUpdate(prev, k, kprev) ==
    LET numerator == Numerator(prev, k, kprev)
        denominator == Denominator(prev, k, kprev)
    IN  IF denominator = 0 THEN reinit_prior
        ELSE [i \in Grid |-> Div(numerator[i], denominator)]

(***************************************************************************)
(* highest_density_interval and the per-kind table of infer_all            *)
(***************************************************************************)

\* Mutant of CumSum: the column is used as it is, not accumulated.
CumSumForgotten(col) == col

\* posteriors.values.cumsum(axis=0) for one column.
CumSum(col) == [i \in Grid |-> ArraySum(SubSeq(col, 1, i))]

AbsDiff(a, b) == IF a >= b THEN a - b ELSE b - a

\* np.argmin(np.abs(cdf - target)): the first index of the smallest distance.
ArgMinDist(cdf, target) ==
    CHOOSE i \in Grid :
        /\ \A j \in Grid : AbsDiff(cdf[i], target) <= AbsDiff(cdf[j], target)
        /\ \A j \in 1..(i - 1) : AbsDiff(cdf[j], target) > AbsDiff(cdf[i], target)

\* highest_density_interval for one column: the r values of the grid points
\* whose cumulative mass is closest to 1 - ci and to ci.
highest_density_interval(col, ci) ==
    LET posterior_cdfs == CumSum(col)
    IN  [low  |-> r_list[ArgMinDist(posterior_cdfs, Scale - ci)],
         high |-> r_list[ArgMinDist(posterior_cdfs, ci)]]

\* posteriors.idxmax() for one column: the r value of the first maximum.
IdxMax(col) ==
    r_list[CHOOSE i \in Grid :
        /\ \A j \in Grid : col[j] <= col[i]
        /\ \A j \in 1..(i - 1) : col[j] < col[i]]

(***************************************************************************)
(* SpecOutliers: replace_outliers applied to a series, then to its output  *)
(***************************************************************************)
\* Window used for the enumerated series.
OutlierWindow == 3

\* Longest enumerated series.
MaxOutlierLen == 6

\* Counts of the enumerated series.  They differ by multiples of 64, so the
\* repeated means of two values the filter stores stay exact halves.
OutlierCounts == {5, 69, 197, 1093}

\* Fourteen 5s, a spike of 500, then 6, 5, 5 (window 14).
SpikeSeries == [i \in 1..18 |-> Half(IF i = 15 THEN 500 ELSE IF i = 16 THEN 6 ELSE 5)]

\* Fourteen 6s, then 30, 200, 6 (window 14).
DoubleSpikeSeries ==
    [i \in 1..17 |-> Half(IF i = 15 THEN 30 ELSE IF i = 16 THEN 200 ELSE 6)]

\* Fourteen 6s and a spike of 500 as the newest point (window 14).
NewestSpikeSeries == [i \in 1..15 |-> Half(IF i = 15 THEN 500 ELSE 6)]

EngineIdle ==
    /\ obs_dates = <<>> /\ obs_times = <<>> /\ obs_values = <<>>
    /\ dates = <<>> /\ times = <<>> /\ full_smoothed = <<>>
    /\ timeseries = <<>> /\ posteriors = <<>> /\ day = 0
    /\ log_likelihood = [finite |-> TRUE, value |-> 0]
    /\ self_log_likelihood = NoValue
    /\ ret = NoValue /\ df = <<>>

InitOutliers ==
    /\ pc = "call"
    /\ \/ /\ window = OutlierWindow
          /\ x_in \in SeqsOf({Half(c) : c \in OutlierCounts}, 0, MaxOutlierLen)
       \/ /\ window = LOCAL_LOOKBACK_WINDOW
          /\ x_in \in {SpikeSeries, DoubleSpikeSeries, NewestSpikeSeries}
    /\ x_out = x_in
    /\ x_series = x_in
    /\ x_array = x_in
    /\ changed_idx = <<>>
    /\ exc = "none"
    /\ x_again = <<>>
    /\ changed_again = <<>>
    /\ EngineIdle
    /\ AlignIdle
    /\ InferIdle
    /\ DriversIdle

\* What the array behind pd.Series(array) can hold once x[idx] = value has
\* made the Series hold after: the Series is built on the buffer of the
\* array without a copy, so the array follows the Series as long as the
\* assignment keeps the dtype of the buffer; an assignment that changes the
\* dtype moves the Series to a new buffer and the array keeps its values.
ArrayBehind(array, after) == {array, after}

\* replace_outliers(x=pd.Series(timeseries), log, window) with the default
\* z_threshold and min_mean_to_consider, as apply_gaussian_smoothing calls
\* it.  The function assigns into x and returns x: the Series passed in and
\* the Series returned are one object.
ReplaceOutliers ==
    /\ pc = "call"
    /\ LET r == replace_outliers(x_in, window, Z_THRESHOLD, MIN_MEAN_TO_CONSIDER)
       IN  /\ x_out' = r.x
           /\ x_series' = r.x
           /\ x_array' \in ArrayBehind(x_array, r.x)
           /\ changed_idx' = r.changed
           /\ exc' = r.exc
           /\ pc' = IF r.exc = "none" THEN "returned" ELSE "raised"
    /\ UNCHANGED <<window, x_in, x_again, changed_again>>
    /\ UNCHANGED engineVars
    /\ UNCHANGED alignVars
    /\ UNCHANGED inferVars
    /\ UNCHANGED driverVars

\* replace_outliers applied to the series the first call returned.
ReplaceOutliersAgain ==
    /\ pc = "returned"
    /\ LET r == replace_outliers(x_out, window, Z_THRESHOLD, MIN_MEAN_TO_CONSIDER)
       IN  /\ x_again' = r.x
           /\ x_series' = r.x
           /\ x_array' \in (IF x_array = x_out THEN ArrayBehind(x_array, r.x)
                             ELSE {x_array})
           /\ changed_again' = r.changed
           /\ exc' = r.exc
           /\ pc' = IF r.exc = "none" THEN "returned_again" ELSE "raised_again"
    /\ UNCHANGED <<window, x_in, x_out, changed_idx>>
    /\ UNCHANGED engineVars
    /\ UNCHANGED alignVars
    /\ UNCHANGED inferVars
    /\ UNCHANGED driverVars

NextOutliers == ReplaceOutliers \/ ReplaceOutliersAgain

SpecOutliers == InitOutliers /\ [][NextOutliers]_vars

(***************************************************************************)
(* Spec: one engine run for one observation kind (new cases):              *)
(* get_posteriors, which starts with apply_gaussian_smoothing, then the    *)
(* rows infer_all builds from what it returns.                             *)
(***************************************************************************)
\* Longest observation series.
MaxDays == 8

\* Daily counts of the enumerated observation series.
ObsCounts == {0, 16}

\* self.times[0]: days from ref_date to the first observation.
FirstTime == 60

OutliersIdle ==
    /\ window = LOCAL_LOOKBACK_WINDOW /\ x_in = <<>> /\ x_out = <<>>
    /\ changed_idx = <<>> /\ exc = "none" /\ x_again = <<>> /\ changed_again = <<>>
    /\ AliasIdle

\* __init__: the loaded series; case_dates = ref_date + times.
Init ==
    /\ pc = "start"
    /\ obs_values \in SeqsOf({Half(c) : c \in ObsCounts}, 0, MaxDays)
    /\ obs_times = [i \in 1..Len(obs_values) |-> FirstTime + i - 1]
    /\ obs_dates = [i \in 1..Len(obs_values) |-> ref_date + obs_times[i]]
    /\ dates = <<>> /\ times = <<>> /\ full_smoothed = <<>>
    /\ timeseries = <<>> /\ posteriors = <<>> /\ day = 0
    /\ log_likelihood = [finite |-> TRUE, value |-> 0]
    /\ self_log_likelihood = NoValue
    /\ ret = NoValue /\ df = <<>>
    /\ OutliersIdle
    /\ AlignIdle
    /\ InferIdle
    /\ DriversIdle

\* posteriors = pd.DataFrame(index=r_list, columns=timeseries.index,
\*                           data={timeseries.index[0]: prior0})
InitialPosteriors(n) == [c \in 1..n |-> IF c = 1 THEN prior0 ELSE NaNColumn]


\* Mutant of StartIdx: the first column is not counted.
StartIdxAfterFirstColumn(post) == 1 - Len(post)

\* start_idx = -len(posteriors.columns)
StartIdx(post) == 0 - Len(post)

\* get_posteriors up to the Bayes loop: smoothing, the early return on an
\* empty series, the DataFrame of posteriors.
GetPosteriorsBegin ==
    /\ pc = "start"
    /\ LET sm == apply_gaussian_smoothing("new_cases", obs_dates, obs_times,
                                          obs_values, smoothed_max_threshold)
       IN  IF sm.exc # "none"
           THEN /\ pc' = "raised"
                /\ exc' = sm.exc
                /\ UNCHANGED <<dates, times, full_smoothed, timeseries, posteriors,
                               day, log_likelihood, ret>>
           ELSE /\ dates' = sm.dates
                /\ times' = sm.times
                /\ full_smoothed' = sm.full
                /\ timeseries' = sm.smoothed
                /\ exc' = exc
                /\ IF Len(sm.smoothed) = 0
                   THEN /\ ret' = NoValue
                        /\ pc' = "returned"
                        /\ UNCHANGED <<posteriors, day, log_likelihood>>
                   ELSE /\ posteriors' = InitialPosteriors(Len(sm.smoothed))
                        /\ log_likelihood' = [finite |-> TRUE, value |-> 0]
                        /\ day' = 1
                        /\ pc' = "bayes"
                        /\ ret' = ret
    /\ UNCHANGED <<obs_dates, obs_times, obs_values, self_log_likelihood, df>>
    /\ UNCHANGED <<window, x_in, x_out, changed_idx, x_again, changed_again>>
    /\ UNCHANGED alignVars
    /\ UNCHANGED inferVars
    /\ UNCHANGED aliasVars
    /\ UNCHANGED driverVars

\* One iteration of the loop over (previous_day, current_day).
BayesStep ==
    /\ pc = "bayes"
    /\ day < Len(timeseries)
    /\ posteriors' = [posteriors EXCEPT ![day + 1] =
                        BayesUpdate(posteriors[day], timeseries[day + 1], timeseries[day])]
    /\ log_likelihood' =
          AddLog(log_likelihood,
                 Denominator(posteriors[day], timeseries[day + 1], timeseries[day]))
    /\ day' = day + 1
    /\ UNCHANGED <<pc, obs_dates, obs_times, obs_values, dates, times, full_smoothed,
                   timeseries, self_log_likelihood, ret, df>>
    /\ UNCHANGED outlierVars
    /\ UNCHANGED alignVars
    /\ UNCHANGED inferVars
    /\ UNCHANGED aliasVars
    /\ UNCHANGED driverVars

\* After the loop: self.log_likelihood is set and the tuple is returned.
GetPosteriorsReturn ==
    /\ pc = "bayes"
    /\ day = Len(timeseries)
    /\ self_log_likelihood' = [is_none |-> FALSE, finite |-> log_likelihood.finite,
                               value |-> log_likelihood.value]
    /\ ret' = [is_none |-> FALSE,
               dates |-> SliceFrom(dates, StartIdx(posteriors)),
               times |-> SliceFrom(times, StartIdx(posteriors)),
               posteriors |-> posteriors,
               start_idx |-> StartIdx(posteriors)]
    /\ pc' = "returned"
    /\ UNCHANGED <<obs_dates, obs_times, obs_values, dates, times, full_smoothed,
                   timeseries, posteriors, day, log_likelihood, df>>
    /\ UNCHANGED outlierVars
    /\ UNCHANGED alignVars
    /\ UNCHANGED inferVars
    /\ UNCHANGED aliasVars
    /\ UNCHANGED driverVars

\* Mutant of KindTable: the value column is taken from the start of the
\* series, timeseries[:n], instead of timeseries[start_idx:].
KindTableFromSeriesStart(r, values) ==
    [k \in 1..Len(r.posteriors) |->
        [date   |-> r.dates[k],
         Rt_MAP |-> IdxMax(r.posteriors[k]),
         ci_low  |-> [c \in DOMAIN confidence_intervals |->
                        highest_density_interval(r.posteriors[k], confidence_intervals[c]).low],
         ci_high |-> [c \in DOMAIN confidence_intervals |->
                        highest_density_interval(r.posteriors[k], confidence_intervals[c]).high],
         value  |-> values[k]]]

\* One row of df per posterior column: the MAP, the interval of every
\* configured confidence level, the date, and timeseries[start_idx:] of the
\* series get_timeseries returned (values).
KindTable(r, values) ==
    [k \in 1..Len(r.posteriors) |->
        [date   |-> r.dates[k],
         Rt_MAP |-> IdxMax(r.posteriors[k]),
         ci_low  |-> [c \in DOMAIN confidence_intervals |->
                        highest_density_interval(r.posteriors[k], confidence_intervals[c]).low],
         ci_high |-> [c \in DOMAIN confidence_intervals |->
                        highest_density_interval(r.posteriors[k], confidence_intervals[c]).high],
         value  |-> SliceFrom(values, r.start_idx)[k]]]

\* The rows of the kind whose series is obs_values.
KindRows(r) == KindTable(r, obs_values)

\* The body of infer_all's loop for the kind: no rows when posteriors is
\* None; assigning a date column of another length raises ValueError.
InferKind ==
    /\ pc = "returned"
    /\ IF ret.is_none
       THEN /\ df' = <<>>
            /\ pc' = "done"
            /\ exc' = exc
       ELSE IF Len(ret.dates) # Len(ret.posteriors)
       THEN /\ df' = <<>>
            /\ pc' = "raised"
            /\ exc' = "ValueError"
       ELSE /\ df' = KindRows(ret)
            /\ pc' = "done"
            /\ exc' = exc
    /\ UNCHANGED <<obs_dates, obs_times, obs_values, dates, times, full_smoothed,
                   timeseries, posteriors, day, log_likelihood,
                   self_log_likelihood, ret>>
    /\ UNCHANGED <<window, x_in, x_out, changed_idx, x_again, changed_again>>
    /\ UNCHANGED alignVars
    /\ UNCHANGED inferVars
    /\ UNCHANGED aliasVars
    /\ UNCHANGED driverVars

Next == GetPosteriorsBegin \/ BayesStep \/ GetPosteriorsReturn \/ InferKind

Spec == Init /\ [][Next]_vars

(***************************************************************************)
(* align_time_series                                                       *)
(*                                                                         *)
(* A series is a sequence of numbers or NaN.  A difference is used only    *)
(* at the positions of the valid mask, so differences carry no NaN mark.   *)
(***************************************************************************)
\* shifts = range(-21, 5)
shifts == -21..4

\* series_b.shift(i): the value of row k - i at row k, NaN where there is none.
Shifted(s, i) ==
    [k \in 1..Len(s) |-> IF k - i \in 1..Len(s) THEN s[k - i] ELSE NaN]

\* Number of entries of np.diff(s).
DiffLen(s) == IF Len(s) = 0 THEN 0 ELSE Len(s) - 1

\* ~np.isnan(np.diff(s))[k]
DiffPresent(s, k) == ~IsNaN(s[k]) /\ ~IsNaN(s[k + 1])

\* np.diff(s)[k] where it is a number.
DiffAt(s, k) == s[k + 1] - s[k]

\* valid = ~np.isnan(_series_a) & ~np.isnan(series_b_shifted), as the set of
\* positions that are True.
ValidDiffs(a, b, i) ==
    {k \in 1..DiffLen(a) : DiffPresent(a, k) /\ DiffPresent(Shifted(b, i), k)}

\* arr[valid]: the entries of np.diff(s) at the positions of valid, in order.
RECURSIVE MaskedDiffFrom(_, _, _)
MaskedDiffFrom(s, valid, k) ==
    IF k > DiffLen(s) THEN <<>>
    ELSE IF k \in valid THEN <<DiffAt(s, k)>> \o MaskedDiffFrom(s, valid, k + 1)
    ELSE MaskedDiffFrom(s, valid, k + 1)

MaskedDiff(s, valid) == MaskedDiffFrom(s, valid, 1)

\* One entry of signal.correlate(u, v) (mode "full", 0-based lag index k):
\* z[k] = sum over l of u[l] * v[l - k + N - 1].
RECURSIVE CorrelateAt(_, _, _, _)
CorrelateAt(u, v, k, l) ==
    IF l > Len(u) THEN 0
    ELSE (IF (l - 1) - k + Len(u) - 1 \in 0..(Len(v) - 1)
          THEN u[l] * v[(l - 1) - k + Len(u)]
          ELSE 0) + CorrelateAt(u, v, k, l + 1)

\* signal.correlate(u, v): the 2N - 1 lags of two arrays of length N.
Correlate(u, v) == [k \in 1..(2 * Len(u) - 1) |-> CorrelateAt(u, v, k - 1, 1)]

\* signal.correlate(...).mean() as the fraction num / den, den > 0.
XCor(a, b, i) ==
    LET valid == ValidDiffs(a, b, i)
        z == Correlate(MaskedDiff(a, valid), MaskedDiff(Shifted(b, i), valid))
    IN  [num |-> SeqSum(z), den |-> Len(z)]

\* valid_shifts: the shifts with len(series_b_shifted[valid]) > 0.
ValidShifts(a, b) == {i \in shifts : ValidDiffs(a, b, i) # {}}

\* p < q for two fractions with positive denominators.
FracLess(p, q) == p.num * q.den < q.num * p.den

\* Mutant of ArgMaxShift: the last of the largest scores is taken.
ArgMaxShiftLast(valid_shifts, xcor) ==
    CHOOSE i \in valid_shifts :
        /\ \A j \in valid_shifts : ~FracLess(xcor[i], xcor[j])
        /\ \A j \in valid_shifts : j > i => FracLess(xcor[j], xcor[i])

\* valid_shifts[np.argmax(xcor)]: the first of the largest scores, the lists
\* being in increasing order of shift.
ArgMaxShift(valid_shifts, xcor) ==
    CHOOSE i \in valid_shifts :
        /\ \A j \in valid_shifts : ~FracLess(xcor[i], xcor[j])
        /\ \A j \in valid_shifts : j < i => FracLess(xcor[j], xcor[i])

\* The element of a set of one element.  Binding a list as the element of
\* such a set evaluates it once, as the code does, not once per use.
Only(S) == CHOOSE v \in S : TRUE

\* Mutant of align_time_series: without a valid shift the first candidate is
\* returned.
align_time_series_first_candidate(a, b) ==
    Only({IF valid_shifts = {} THEN -21
          ELSE Only({ArgMaxShift(valid_shifts, xcor) :
                        xcor \in {[i \in valid_shifts |-> XCor(a, b, i)]}}) :
          valid_shifts \in {ValidShifts(a, b)}})

\* align_time_series(series_a, series_b) for two series of equal length:
\* valid_shifts[np.argmax(xcor)], or 0 when valid_shifts is empty.
align_time_series(a, b) ==
    Only({IF valid_shifts = {} THEN 0
          ELSE Only({ArgMaxShift(valid_shifts, xcor) :
                        xcor \in {[i \in valid_shifts |-> XCor(a, b, i)]}}) :
          valid_shifts \in {ValidShifts(a, b)}})

(***************************************************************************)
(* Specification SpecAlign: align_time_series on two series of MAP values  *)
(***************************************************************************)
\* Longest enumerated pair of series.
MaxAlignLen == 4

\* Values of the enumerated series: R values of the grid, or NaN.
AlignValues == {0, 3, NaN}

\* Length of the step series, long enough for every candidate shift to have
\* an overlap.
StepLen == 27

\* Rows at which a step series rises.
StepRows == {2, 5, 14, 25}

\* A series that is 0 before row p and 3 from row p on.
StepSeries(p) == [k \in 1..StepLen |-> IF k < p THEN 0 ELSE 3]

InitAlign ==
    /\ pc = "align"
    /\ \/ \E n \in 0..MaxAlignLen :
             /\ series_a \in [1..n -> AlignValues]
             /\ series_b \in [1..n -> AlignValues]
       \/ \E p, q \in StepRows :
             /\ series_a = StepSeries(p)
             /\ series_b = StepSeries(q)
    /\ shift = NoValue
    /\ OutliersIdle
    /\ EngineIdle
    /\ InferIdle
    /\ DriversIdle

\* shift_in_days = align_time_series(series_a, series_b)
AlignTimeSeries ==
    /\ pc = "align"
    /\ shift' = [is_none |-> FALSE, value |-> align_time_series(series_a, series_b)]
    /\ pc' = "aligned"
    /\ UNCHANGED <<series_a, series_b>>
    /\ UNCHANGED outlierVars
    /\ UNCHANGED engineVars
    /\ UNCHANGED inferVars
    /\ UNCHANGED aliasVars
    /\ UNCHANGED driverVars

NextAlign == AlignTimeSeries

SpecAlign == InitAlign /\ [][NextAlign]_vars

(***************************************************************************)
(* get_timeseries, get_available_timeseries                                *)
(*                                                                         *)
(* engine holds the fields of self that these read: times,                 *)
(* observed_new_cases, observed_new_deaths, times_raw_new_cases,           *)
(* raw_new_cases, hospital_times, hospitalizations and                     *)
(* hospitalization_data_type ("none" for None).  A kind is the value of    *)
(* its TimeseriesType member.                                              *)
(***************************************************************************)
min_cases == 5
min_deaths == 5

\* The values of the members of TimeseriesType.
TimeseriesTypes ==
    {"new_cases", "raw_new_cases", "new_deaths", "raw_new_deaths",
     "new_hospitalizations", "current_hospitalizations"}

\* bool(member) for a member of an Enum: every member is truthy.
MemberIsTruthy(member) == TRUE

\* [ref_date + timedelta(days=int(t)) for t in times]
DatesOf(ts) == [i \in 1..Len(ts) |-> ref_date + ts[i]]

\* get_timeseries(timeseries_type): the chain of if / elif, in its order.
get_timeseries(e, kind) ==
    IF kind = "new_cases"
    THEN [dates |-> DatesOf(e.times), times |-> e.times,
          values |-> e.observed_new_cases]
    ELSE IF kind = "raw_new_cases"
    THEN [dates |-> DatesOf(e.times_raw_new_cases), times |-> e.times_raw_new_cases,
          values |-> e.raw_new_cases]
    ELSE IF kind = "new_deaths" \/ MemberIsTruthy("raw_new_deaths")
    THEN [dates |-> DatesOf(e.times), times |-> e.times,
          values |-> e.observed_new_deaths]
    ELSE IF kind \in {"new_hospitalizations", "current_hospitalizations"}
    THEN [dates |-> DatesOf(e.hospital_times), times |-> e.hospital_times,
          values |-> e.hospitalizations]
    ELSE NoValue

\* len(hosps > 3): hosps > 3 is an array of booleans as long as hosps.
LenOfComparison(hosps) == Len(hosps)

\* get_available_timeseries: the kinds appended, in order.
get_available_timeseries(e) ==
    LET cases == get_timeseries(e, "new_cases").values
        deaths == get_timeseries(e, "new_deaths").values
        hosps == IF e.hospitalization_data_type # "none"
                 THEN get_timeseries(e, "new_hospitalizations").values
                 ELSE <<>>
    IN  (IF SeqSum(cases) > Half(min_cases)
         THEN <<"new_cases", "raw_new_cases">> ELSE <<>>)
        \o (IF SeqSum(deaths) > Half(min_deaths)
            THEN <<"new_deaths", "raw_new_deaths">> ELSE <<>>)
        \o (IF e.hospitalization_data_type = "current" /\ LenOfComparison(hosps) # 0
            THEN <<"new_hospitalizations">>
            ELSE IF e.hospitalization_data_type = "cumulative"
                    /\ LenOfComparison(hosps) # 0
            THEN <<"new_hospitalizations">>
            ELSE <<>>)

(***************************************************************************)
(* get_posteriors as one call                                              *)
(***************************************************************************)
\* The loop over (previous_day, current_day) from day d to the end.
RECURSIVE BayesLoop(_, _, _, _)
BayesLoop(post, ll, ts, d) ==
    IF d >= Len(ts) THEN [posteriors |-> post, log_likelihood |-> ll]
    ELSE Only({BayesLoop([post EXCEPT ![d + 1] = col], AddLog(ll, den), ts, d + 1) :
                  col \in {BayesUpdate(post[d], ts[d + 1], ts[d])},
                  den \in {Denominator(post[d], ts[d + 1], ts[d])}})

\* get_posteriors(timeseries_type) for the series src that get_timeseries
\* returns: what apply_gaussian_smoothing returned, the posteriors, the
\* log-likelihood (ran: the loop was reached and self.log_likelihood set)
\* and the returned tuple.
get_posteriors(kind, src) ==
    Only({IF sm.exc # "none" \/ Len(sm.smoothed) = 0
          THEN [exc |-> sm.exc, dates |-> sm.dates, times |-> sm.times,
                full |-> sm.full, smoothed |-> sm.smoothed, posteriors |-> <<>>,
                log_likelihood |-> [finite |-> TRUE, value |-> 0],
                ran |-> FALSE, ret |-> NoValue]
          ELSE Only({[exc |-> "none", dates |-> sm.dates, times |-> sm.times,
                      full |-> sm.full, smoothed |-> sm.smoothed,
                      posteriors |-> run.posteriors,
                      log_likelihood |-> run.log_likelihood,
                      ran |-> TRUE,
                      ret |-> [is_none |-> FALSE,
                               dates |-> SliceFrom(sm.dates, StartIdx(run.posteriors)),
                               times |-> SliceFrom(sm.times, StartIdx(run.posteriors)),
                               posteriors |-> run.posteriors,
                               start_idx |-> StartIdx(run.posteriors)]] :
                     run \in {BayesLoop(InitialPosteriors(Len(sm.smoothed)),
                                        [finite |-> TRUE, value |-> 0],
                                        sm.smoothed, 1)}}) :
          sm \in {apply_gaussian_smoothing(kind, src.dates, src.times, src.values,
                                           smoothed_max_threshold)}})

(***************************************************************************)
(* infer_all: tables                                                       *)
(*                                                                         *)
(* A table is [index, data]: index is the sequence of its dates, data maps *)
(* a column to its cells, one per date, numbers or NaN.  A column is       *)
(* [stat, pct, kind] for the name f"{stat}{pct}__{kind}" (pct 0: none);    *)
(* stat "" is the column named after the kind.  The composite MAP holds    *)
(* halves (a mean of two grid values).                                     *)
(***************************************************************************)
\* int(math.floor(100 * (1 - ci))) and int(math.floor(100 * ci)) for the
\* configured confidence_intervals, in IEEE doubles.
CiLowPct == <<31, 5>>
CiHighPct == <<68, 95>>

ColMAP(kind) == [stat |-> "Rt_MAP", pct |-> 0, kind |-> kind]
ColCi(pct, kind) == [stat |-> "Rt_ci", pct |-> pct, kind |-> kind]
ColCount(kind) == [stat |-> "", pct |-> 0, kind |-> kind]
ColLag(kind) == [stat |-> "lag_days", pct |-> 0, kind |-> kind]
ColMAPComposite == [stat |-> "Rt_MAP_composite", pct |-> 0, kind |-> ""]
ColCi95Composite == [stat |-> "Rt_ci95_composite", pct |-> 0, kind |-> ""]

\* The columns infer_all gives the table of one kind.
KindColumns(kind) ==
    {ColMAP(kind), ColCount(kind)}
    \cup {ColCi(CiLowPct[c], kind) : c \in DOMAIN confidence_intervals}
    \cup {ColCi(CiHighPct[c], kind) : c \in DOMAIN confidence_intervals}

\* df of one kind from its rows.
FrameOfRows(kind, rows) ==
    [index |-> [k \in 1..Len(rows) |-> rows[k].date],
     data |-> [col \in KindColumns(kind) |->
                 [k \in 1..Len(rows) |->
                     IF col.stat = "Rt_MAP" THEN rows[k].Rt_MAP
                     ELSE IF col.stat = "" THEN rows[k].value
                     ELSE IF \E c \in DOMAIN confidence_intervals : CiLowPct[c] = col.pct
                     THEN rows[k].ci_low[CHOOSE c \in DOMAIN confidence_intervals :
                                             CiLowPct[c] = col.pct]
                     ELSE rows[k].ci_high[CHOOSE c \in DOMAIN confidence_intervals :
                                              CiHighPct[c] = col.pct]]]]

\* df of one kind from what get_posteriors returned and the series
\* get_timeseries returned.
KindFrame(kind, r, values) ==
    Only({FrameOfRows(kind, rows) : rows \in {KindTable(r, values)}})

\* The elements of a set of dates in increasing order.
RECURSIVE SortedSeq(_)
SortedSeq(S) ==
    IF S = {} THEN <<>>
    ELSE LET m == CHOOSE x \in S : \A y \in S : x <= y
         IN  <<m>> \o SortedSeq(S \ {m})

\* The cell of a column of a table at a date, NaN where the table has no
\* such row or column.
CellAt(t, col, d) ==
    IF col \in DOMAIN t.data /\ \E i \in 1..Len(t.index) : t.index[i] = d
    THEN t.data[col][CHOOSE i \in 1..Len(t.index) : t.index[i] = d]
    ELSE NaN

\* Mutant of MergeOuter: the table of the kind replaces the merged table.
MergeKeepsNewest(t, f) == f

\* df_all.merge(df, left_index=True, right_index=True, how="outer")
MergeOuter(t, f) ==
    Only({[index |-> idx,
           data |-> [col \in DOMAIN t.data \cup DOMAIN f.data |->
                       [i \in 1..Len(idx) |->
                           IF col \in DOMAIN t.data THEN CellAt(t, col, idx[i])
                           ELSE CellAt(f, col, idx[i])]]] :
          idx \in {SortedSeq({t.index[i] : i \in 1..Len(t.index)}
                             \cup {f.index[i] : i \in 1..Len(f.index)})}})

(***************************************************************************)
(* infer_all: the lag of a lagging indicator                               *)
(***************************************************************************)
\* Rows of the trailing window: the 21 of max(-21, -len(df)).
AlignWindow == 21

\* max(-21, -len(df))
LastIdx(df_len) == IF 0 - df_len > 0 - AlignWindow THEN 0 - df_len ELSE 0 - AlignWindow

\* s.iloc[start:] for start >= 0
ILocFrom(s, start) == SubSeq(s, start + 1, Len(s))

\* Mutant of KindInColumn: every column is taken.
KindInEveryColumn(kind, col) == TRUE

\* kind_value in col, for the name of a column: the names of the raw kinds
\* contain the names of the corrected ones.
KindInColumn(kind, col) ==
    \/ col.kind = kind
    \/ kind = "new_cases" /\ col.kind = "raw_new_cases"
    \/ kind = "new_deaths" /\ col.kind = "raw_new_deaths"

\* s.interpolate(limit_direction="forward", method="linear"): a missing cell
\* after a valid one is filled, between two valid cells on the line through
\* them (to the unit of the cells), after the last valid cell with its value.
Interpolate(s) ==
    [i \in 1..Len(s) |->
        IF ~IsNaN(s[i]) THEN s[i]
        ELSE LET before == {p \in 1..(i - 1) : ~IsNaN(s[p])}
                 after == {q \in (i + 1)..Len(s) : ~IsNaN(s[q])}
             IN  IF before = {} THEN NaN
                 ELSE LET p == CHOOSE x \in before : \A y \in before : y <= x
                      IN  IF after = {} THEN s[p]
                          ELSE LET q == CHOOSE x \in after : \A y \in after : x <= y
                               IN  s[p] + ((s[q] - s[p]) * (i - p)) \div (q - p)]

\* The lag block for a kind whose df has df_len rows, on the merged table t:
\* the two windows, the shift, the lag column, then every column naming the
\* kind shifted and interpolated.
LagBlock(kind, t, df_len) ==
    Only({[kind |-> kind,
           series_a |-> a,
           series_b |-> b,
           shift_in_days |-> sh,
           before |-> [index |-> t.index,
                       data |-> [col \in DOMAIN t.data \cup {ColLag(kind)} |->
                                   IF col = ColLag(kind)
                                   THEN [i \in 1..Len(t.index) |-> sh]
                                   ELSE t.data[col]]],
           after |-> [index |-> t.index,
                      data |-> [col \in DOMAIN t.data \cup {ColLag(kind)} |->
                                  LET cells == IF col = ColLag(kind)
                                               THEN [i \in 1..Len(t.index) |-> sh]
                                               ELSE t.data[col]
                                  IN  IF KindInColumn(kind, col)
                                      THEN Interpolate(Shifted(cells, sh))
                                      ELSE cells]]] :
          a \in {ILocFrom(t.data[ColMAP("new_cases")], 0 - LastIdx(df_len))},
          b \in {ILocFrom(t.data[ColMAP(kind)], 0 - LastIdx(df_len))},
          sh \in {align_time_series(ILocFrom(t.data[ColMAP("new_cases")], 0 - LastIdx(df_len)),
                                    ILocFrom(t.data[ColMAP(kind)], 0 - LastIdx(df_len)))}})

\* The kinds for which infer_all computes a lag.
LaggingTypes == {"new_deaths", "new_hospitalizations"}

(***************************************************************************)
(* infer_all: the composite                                                *)
(***************************************************************************)
\* np.nanmean of two cells, in halves.
NanMean2(a, b) ==
    IF IsNaN(a) /\ IsNaN(b) THEN NaN
    ELSE IF IsNaN(a) THEN Half(b)
    ELSE IF IsNaN(b) THEN Half(a)
    ELSE a + b

\* A column of grid values in halves.
InHalves(s) == [i \in 1..Len(s) |-> IF IsNaN(s[i]) THEN NaN ELSE Half(s[i])]

\* t with the column col set to cells.
WithColumn(t, col, cells) ==
    [index |-> t.index,
     data |-> [c \in DOMAIN t.data \cup {col} |-> IF c = col THEN cells ELSE t.data[c]]]

\* Mutant of WithComposite: the band is the wider of the cases' and the
\* deaths' bounds when both contribute.
WithCompositeBandFromBoth(t) ==
    IF ColMAP("new_deaths") \in DOMAIN t.data /\ ColMAP("new_cases") \in DOMAIN t.data
    THEN WithColumn(
            WithColumn(t, ColMAPComposite,
                       [i \in 1..Len(t.index) |->
                           NanMean2(t.data[ColMAP("new_cases")][i],
                                    t.data[ColMAP("new_deaths")][i])]),
            ColCi95Composite,
            [i \in 1..Len(t.index) |->
                IF t.data[ColCi(95, "new_deaths")][i] > t.data[ColCi(95, "new_cases")][i]
                THEN t.data[ColCi(95, "new_deaths")][i]
                ELSE t.data[ColCi(95, "new_cases")][i]])
    ELSE IF ColMAP("new_cases") \in DOMAIN t.data
    THEN WithColumn(
            WithColumn(t, ColMAPComposite, InHalves(t.data[ColMAP("new_cases")])),
            ColCi95Composite, t.data[ColCi(95, "new_cases")])
    ELSE t

\* The if / elif that adds Rt_MAP_composite and Rt_ci95_composite.
WithComposite(t) ==
    IF ColMAP("new_deaths") \in DOMAIN t.data /\ ColMAP("new_cases") \in DOMAIN t.data
    THEN WithColumn(
            WithColumn(t, ColMAPComposite,
                       [i \in 1..Len(t.index) |->
                           NanMean2(t.data[ColMAP("new_cases")][i],
                                    t.data[ColMAP("new_deaths")][i])]),
            ColCi95Composite, t.data[ColCi(95, "new_cases")])
    ELSE IF ColMAP("new_cases") \in DOMAIN t.data
    THEN WithColumn(
            WithColumn(t, ColMAPComposite, InHalves(t.data[ColMAP("new_cases")])),
            ColCi95Composite, t.data[ColCi(95, "new_cases")])
    ELSE t

(***************************************************************************)
(* Specification SpecInfer: infer_all on an engine with case, death and    *)
(* hospitalization series                                                  *)
(***************************************************************************)
\* Days of the case and death series.
InferDays == 5

\* Days by which the raw case series starts before the case series.
RawLeadDays == 3

\* Daily count of the days with observations.
DailyCount == 16

\* Count of a single day with observations, too low to pass the smoothing
\* threshold.
BlipCount == 12

\* A series of n days that is 0 on its first k days.
LateStart(n, k) == [i \in 1..n |-> IF i <= k THEN 0 ELSE Half(DailyCount)]

\* A series of n days with observations on its third day only.
Blip(n) == [i \in 1..n |-> IF i = 3 THEN Half(BlipCount) ELSE 0]

\* The case and death series of the engines.
InferSeries == {LateStart(InferDays, k) : k \in 0..InferDays} \cup {Blip(InferDays)}

\* Lengths of the hospitalization series of the engines.
HospLens == {0, 2, 5}

\* Times of a series of n days whose first day is t0.
TimesOf(t0, n) == [i \in 1..n |-> t0 + i - 1]

\* The fields __init__ loads for a geography with these case and death
\* series and m days of hospitalizations of the given type.
EngineOf(cases, deaths, kind, m) ==
    [times |-> TimesOf(FirstTime, InferDays),
     observed_new_cases |-> cases,
     observed_new_deaths |-> deaths,
     times_raw_new_cases |-> TimesOf(FirstTime - RawLeadDays, InferDays + RawLeadDays),
     raw_new_cases |-> LateStart(InferDays + RawLeadDays, 0),
     hospital_times |-> TimesOf(FirstTime, m),
     hospitalizations |-> LateStart(m, 0),
     hospitalization_data_type |-> kind]

\* __init__: the fields loaded for the geography.
InitInfer ==
    /\ pc = "infer_start"
    /\ \E cases \in InferSeries, deaths \in InferSeries,
          kind \in {"none", "cumulative", "current"}, m \in HospLens :
          /\ kind = "none" => m = 0
          /\ engine = EngineOf(cases, deaths, kind, m)
    /\ available_timeseries = <<>> /\ kind_pos = 0
    /\ timeseries_type = "" /\ df_all = NoValue /\ lag = NoValue
    /\ OutliersIdle
    /\ EngineIdle
    /\ AlignIdle
    /\ DriversIdle

\* infer_all up to its loop: df_all = None and get_available_timeseries().
GetAvailableTimeseries ==
    /\ pc = "infer_start"
    /\ available_timeseries' = get_available_timeseries(engine)
    /\ kind_pos' = 1
    /\ df_all' = NoValue
    /\ pc' = "infer_loop"
    /\ UNCHANGED <<engine, timeseries_type, lag>>
    /\ UNCHANGED outlierVars
    /\ UNCHANGED engineVars
    /\ UNCHANGED alignVars
    /\ UNCHANGED aliasVars
    /\ UNCHANGED driverVars

\* The table after one iteration for a kind with a result: df_all = df for
\* the first result, the outer merge otherwise, then the lag block for a
\* lagging indicator when the table has the MAP of the cases.
TableAfter(kind, all, frame) ==
    Only({IF kind \in LaggingTypes /\ ColMAP("new_cases") \in DOMAIN merged.data
          THEN Only({[df_all |-> [is_none |-> FALSE, index |-> lb.after.index,
                                  data |-> lb.after.data],
                      lag |-> [is_none |-> FALSE, kind |-> lb.kind,
                               series_a |-> lb.series_a, series_b |-> lb.series_b,
                               shift_in_days |-> lb.shift_in_days,
                               before |-> lb.before]] :
                     lb \in {LagBlock(kind, merged, Len(frame.index))}})
          ELSE [df_all |-> [is_none |-> FALSE, index |-> merged.index,
                            data |-> merged.data],
                lag |-> NoValue] :
          merged \in {IF all.is_none THEN frame ELSE MergeOuter(all, frame)}})

\* One iteration of the loop over available_timeseries: get_timeseries,
\* get_posteriors, the table of the kind, the merge and the lag block.
InferTimeseriesType ==
    /\ pc = "infer_loop"
    /\ kind_pos <= Len(available_timeseries)
    /\ \E kind \in {available_timeseries[kind_pos]} :
       \E src \in {get_timeseries(engine, kind)} :
       \E gp \in {get_posteriors(kind, src)} :
          /\ timeseries_type' = kind
          /\ kind_pos' = kind_pos + 1
          /\ obs_dates' = src.dates
          /\ obs_times' = src.times
          /\ obs_values' = src.values
          /\ dates' = gp.dates
          /\ times' = gp.times
          /\ full_smoothed' = gp.full
          /\ timeseries' = gp.smoothed
          /\ posteriors' = gp.posteriors
          /\ day' = IF gp.ran THEN Len(gp.smoothed) ELSE 0
          /\ log_likelihood' = gp.log_likelihood
          /\ self_log_likelihood' =
                IF gp.ran THEN [is_none |-> FALSE, finite |-> gp.log_likelihood.finite,
                                value |-> gp.log_likelihood.value]
                ELSE self_log_likelihood
          /\ ret' = gp.ret
          /\ IF gp.exc # "none"
             THEN /\ exc' = gp.exc
                  /\ pc' = "infer_raised"
                  /\ UNCHANGED <<df, df_all, lag>>
             ELSE IF gp.ret.is_none
             THEN /\ df' = <<>>
                  /\ lag' = NoValue
                  /\ UNCHANGED <<exc, pc, df_all>>
             ELSE IF Len(gp.ret.dates) # Len(gp.ret.posteriors)
             THEN /\ exc' = "ValueError"
                  /\ pc' = "infer_raised"
                  /\ UNCHANGED <<df, df_all, lag>>
             ELSE \E after \in {TableAfter(kind, df_all,
                                           KindFrame(kind, gp.ret, src.values))} :
                     /\ df' = KindTable(gp.ret, src.values)
                     /\ df_all' = after.df_all
                     /\ lag' = after.lag
                     /\ UNCHANGED <<exc, pc>>
    /\ UNCHANGED <<engine, available_timeseries>>
    /\ UNCHANGED <<window, x_in, x_out, changed_idx, x_again, changed_again>>
    /\ UNCHANGED alignVars
    /\ UNCHANGED aliasVars
    /\ UNCHANGED driverVars

\* infer_all after its loop: the composite columns, df_all.to_csv (which
\* None does not have) and the return of df_all.
InferAllReturn ==
    /\ pc = "infer_loop"
    /\ kind_pos > Len(available_timeseries)
    /\ IF df_all.is_none
       THEN /\ exc' = "AttributeError"
            /\ pc' = "infer_raised"
            /\ df_all' = df_all
       ELSE /\ df_all' = [is_none |-> FALSE,
                          index |-> WithComposite(df_all).index,
                          data |-> WithComposite(df_all).data]
            /\ pc' = "infer_done"
            /\ exc' = exc
    /\ UNCHANGED <<engine, available_timeseries, kind_pos, timeseries_type, lag>>
    /\ UNCHANGED <<window, x_in, x_out, changed_idx, x_again, changed_again>>
    /\ UNCHANGED engineVars
    /\ UNCHANGED alignVars
    /\ UNCHANGED aliasVars
    /\ UNCHANGED driverVars

NextInfer == GetAvailableTimeseries \/ InferTimeseriesType \/ InferAllReturn

SpecInfer == InitInfer /\ [][NextInfer]_vars

(***************************************************************************)
(* infer_all as one call, run_for_fips                                     *)
(***************************************************************************)
\* The loop of infer_all over kinds from position p on with the merged table
\* all: the table after the loop, or the exception that escaped it.
RECURSIVE InferLoop(_, _, _, _)
InferLoop(e, kinds, p, all) ==
    IF p > Len(kinds) THEN [exc |-> "none", df_all |-> all]
    ELSE Only({IF gp.exc # "none" THEN [exc |-> gp.exc, df_all |-> all]
               ELSE IF gp.ret.is_none THEN InferLoop(e, kinds, p + 1, all)
               ELSE IF Len(gp.ret.dates) # Len(gp.ret.posteriors)
               THEN [exc |-> "ValueError", df_all |-> all]
               ELSE InferLoop(e, kinds, p + 1,
                              TableAfter(kinds[p], all,
                                         KindFrame(kinds[p], gp.ret,
                                                   get_timeseries(e, kinds[p]).values)).df_all) :
               gp \in {get_posteriors(kinds[p], get_timeseries(e, kinds[p]))}})

\* infer_all(): the returned table, or the exception that escaped.
infer_all(e) ==
    Only({IF run.exc # "none" THEN [exc |-> run.exc, df_all |-> NoValue]
          ELSE IF run.df_all.is_none THEN [exc |-> "AttributeError", df_all |-> NoValue]
          ELSE [exc |-> "none",
                df_all |-> [is_none |-> FALSE,
                            index |-> WithComposite(run.df_all).index,
                            data |-> WithComposite(run.df_all).data]] :
          run \in {InferLoop(e, get_available_timeseries(e), 1, NoValue)}})

\* The classes of the exceptions of the model; all derive from Exception.
ExceptionClasses == {"AttributeError", "ValueError", "KeyError", "LoadError"}

\* Mutant of HandledByExcept: the handler names one class.
HandledIfValueError(raised) == raised = "ValueError"

\* except Exception as e: the handler takes every exception of the model.
HandledByExcept(raised) == raised \in ExceptionClasses

\* run_for_fips(fips) for a geography g: g.loads says whether cls(fips)
\* finds its data; the value returned, or the exception that escaped.
run_for_fips(g) ==
    Only({IF body.exc = "none" THEN [exc |-> "none", value |-> body.df_all]
          ELSE IF HandledByExcept(body.exc) THEN [exc |-> "none", value |-> NoValue]
          ELSE [exc |-> body.exc, value |-> NoValue] :
          body \in {IF g.loads THEN infer_all(g.engine)
                    ELSE [exc |-> "LoadError", df_all |-> NoValue]}})

(***************************************************************************)
(* Specification SpecBatch: run_state runs run_for_fips for the state and  *)
(* for each of its counties                                                *)
(***************************************************************************)
\* Longest batch of geographies.
MaxBatch == 3

\* The geographies of the batches: one whose data cannot be loaded, one with
\* no case and no death, one with cases from the first day and no death, one
\* with late cases and a single day of deaths.
BatchGeographies ==
    {[loads |-> FALSE, engine |-> NoValue],
     [loads |-> TRUE,
      engine |-> EngineOf(LateStart(InferDays, InferDays),
                          LateStart(InferDays, InferDays), "none", 0)],
     [loads |-> TRUE,
      engine |-> EngineOf(LateStart(InferDays, 0),
                          LateStart(InferDays, InferDays), "none", 0)],
     [loads |-> TRUE,
      engine |-> EngineOf(LateStart(InferDays, 2), Blip(InferDays), "none", 0)]}

\* run_state(state): the fips of the state, then all_fips of its counties.
InitBatch ==
    /\ pc = "batch"
    /\ all_fips \in SeqsOf(BatchGeographies, 1, MaxBatch)
    /\ fips_pos = 1
    /\ rt_inferences = <<>>
    /\ WorkersIdle
    /\ BacktestIdle
    /\ OutliersIdle
    /\ EngineIdle
    /\ AlignIdle
    /\ InferIdle

\* RtInferenceEngine.run_for_fips(fips) for the next geography; an exception
\* that escapes it ends run_state.
RunForFips ==
    /\ pc = "batch"
    /\ fips_pos <= Len(all_fips)
    /\ \E r \in {run_for_fips(all_fips[fips_pos])} :
          IF r.exc = "none"
          THEN /\ rt_inferences' = Append(rt_inferences, r.value)
               /\ fips_pos' = fips_pos + 1
               /\ UNCHANGED <<pc, exc>>
          ELSE /\ exc' = r.exc
               /\ pc' = "batch_raised"
               /\ UNCHANGED <<rt_inferences, fips_pos>>
    /\ UNCHANGED all_fips
    /\ UNCHANGED <<window, x_in, x_out, changed_idx, x_again, changed_again>>
    /\ UNCHANGED <<aliasVars, engineVars, alignVars, inferVars>>
    /\ UNCHANGED <<workerVars, backtestVars>>

\* run_state after the last geography.
RunStateReturn ==
    /\ pc = "batch"
    /\ fips_pos > Len(all_fips)
    /\ pc' = "batch_done"
    /\ UNCHANGED <<batchVars, outlierVars, aliasVars, engineVars, alignVars, inferVars>>
    /\ UNCHANGED <<workerVars, backtestVars>>

NextBatch == RunForFips \/ RunStateReturn

SpecBatch == InitBatch /\ [][NextBatch]_vars

(***************************************************************************)
(* Specification SpecWorkers: two runs of infer_all for two geographies,   *)
(* on two workers started in one working directory, interleaved            *)
(***************************************************************************)
Workers == {1, 2}

\* The fips of the geography a worker runs.
FipsOf(w) == IF w = 1 THEN "01" ELSE "02"

\* The paths the runs write, as the parts of the name: relative paths are
\* files of the working directory, get_run_artifact_path is a path per fips.
RawDataFile == <<"rawdata.pdf">>
CleaningFile(kind) == <<kind, "_cleaning.pdf">>
DfAllFile == <<"df_all.csv">>
ReportFile(fips) == <<fips, "RT_INFERENCE_REPORT">>

\* The files written so far after worker w writes the file name.
Written(fs, name, w) == fs \cup {[name |-> name, by |-> w]}

\* The engines of the geographies whose data load.
WorkerEngines == {g.engine : g \in {h \in BatchGeographies : h.loads}}

InitWorkers ==
    /\ pc = "workers"
    /\ w_engine \in [Workers -> WorkerEngines]
    /\ w_pc = [w \in Workers |-> "infer_start"]
    /\ w_available = [w \in Workers |-> <<>>]
    /\ w_pos = [w \in Workers |-> 0]
    /\ w_df_all = [w \in Workers |-> NoValue]
    /\ files = {}
    /\ BatchIdle
    /\ BacktestIdle
    /\ OutliersIdle
    /\ EngineIdle
    /\ AlignIdle
    /\ InferIdle

\* infer_all of worker w up to its loop: get_available_timeseries(), which
\* plots the available series into rawdata.pdf.
WorkerAvailable(w) ==
    /\ pc = "workers"
    /\ w_pc[w] = "infer_start"
    /\ w_available' = [w_available EXCEPT ![w] = get_available_timeseries(w_engine[w])]
    /\ w_pos' = [w_pos EXCEPT ![w] = 1]
    /\ w_pc' = [w_pc EXCEPT ![w] = "infer_loop"]
    /\ files' = Written(files, RawDataFile, w)
    /\ UNCHANGED <<w_engine, w_df_all>>
    /\ UNCHANGED <<pc, exc>>
    /\ UNCHANGED <<window, x_in, x_out, changed_idx, x_again, changed_again>>
    /\ UNCHANGED <<aliasVars, engineVars, alignVars, inferVars>>
    /\ UNCHANGED <<batchVars, backtestVars>>

\* One iteration of the loop of worker w: apply_gaussian_smoothing saves the
\* plot of the kind, then the posteriors, the table of the kind, the merge.
WorkerInfer(w) ==
    /\ pc = "workers"
    /\ w_pc[w] = "infer_loop"
    /\ w_pos[w] <= Len(w_available[w])
    /\ \E kind \in {w_available[w][w_pos[w]]} :
       \E src \in {get_timeseries(w_engine[w], kind)} :
       \E gp \in {get_posteriors(kind, src)} :
          IF gp.exc # "none"
          THEN /\ w_pc' = [w_pc EXCEPT ![w] = "infer_raised"]
               /\ UNCHANGED <<w_pos, w_df_all, files>>
          ELSE /\ files' = Written(files, CleaningFile(kind), w)
               /\ IF gp.ret.is_none
                  THEN /\ w_pos' = [w_pos EXCEPT ![w] = @ + 1]
                       /\ UNCHANGED <<w_pc, w_df_all>>
                  ELSE IF Len(gp.ret.dates) # Len(gp.ret.posteriors)
                  THEN /\ w_pc' = [w_pc EXCEPT ![w] = "infer_raised"]
                       /\ UNCHANGED <<w_pos, w_df_all>>
                  ELSE /\ w_df_all' =
                             [w_df_all EXCEPT ![w] =
                                 TableAfter(kind, w_df_all[w],
                                            KindFrame(kind, gp.ret, src.values)).df_all]
                       /\ w_pos' = [w_pos EXCEPT ![w] = @ + 1]
                       /\ UNCHANGED w_pc
    /\ UNCHANGED <<w_engine, w_available>>
    /\ UNCHANGED <<pc, exc>>
    /\ UNCHANGED <<window, x_in, x_out, changed_idx, x_again, changed_again>>
    /\ UNCHANGED <<aliasVars, engineVars, alignVars, inferVars>>
    /\ UNCHANGED <<batchVars, backtestVars>>

\* infer_all of worker w after its loop: the composite columns, the report
\* of the fips, df_all.to_csv("df_all.csv") and the return of df_all.
WorkerReturn(w) ==
    /\ pc = "workers"
    /\ w_pc[w] = "infer_loop"
    /\ w_pos[w] > Len(w_available[w])
    /\ IF w_df_all[w].is_none
       THEN /\ w_pc' = [w_pc EXCEPT ![w] = "infer_raised"]
            /\ UNCHANGED <<w_df_all, files>>
       ELSE /\ w_df_all' = [w_df_all EXCEPT ![w] =
                               [is_none |-> FALSE,
                                index |-> WithComposite(w_df_all[w]).index,
                                data |-> WithComposite(w_df_all[w]).data]]
            /\ files' = Written(Written(files, ReportFile(FipsOf(w)), w), DfAllFile, w)
            /\ w_pc' = [w_pc EXCEPT ![w] = "infer_done"]
    /\ UNCHANGED <<w_engine, w_available, w_pos>>
    /\ UNCHANGED <<pc, exc>>
    /\ UNCHANGED <<window, x_in, x_out, changed_idx, x_again, changed_again>>
    /\ UNCHANGED <<aliasVars, engineVars, alignVars, inferVars>>
    /\ UNCHANGED <<batchVars, backtestVars>>

NextWorkers == \E w \in Workers : WorkerAvailable(w) \/ WorkerInfer(w) \/ WorkerReturn(w)

SpecWorkers == InitWorkers /\ [][NextWorkers]_vars

(***************************************************************************)
(* Specification SpecBacktest: run_backtest and                            *)
(* run_model_fitter_for_backtest                                           *)
(*                                                                         *)
(* observations is [times, new_cases, new_deaths]; loaded is the           *)
(* hospitalization data ModelFitter(fips) loads; mf is the model fitter,   *)
(* None as 0 for mle_model and fit_results and "none" for the data type.   *)
(***************************************************************************)
\* n_retries=3
n_retries == 3

\* Largest number of blinded days of a backtest.
max_observation_days_blinded == 3

\* Longest series of observations.
MaxObservationDays == 4

\* The observations of n days.
ObservationsOf(n) ==
    [times |-> [i \in 1..n |-> FirstTime + i],
     new_cases |-> [i \in 1..n |-> 10 * i],
     new_deaths |-> [i \in 1..n |-> i]]

\* The hospitalization data of a geography with the given times: none, one
\* value for each time, or values for the last two times only.
HospitalLoads(ts) ==
    {[hospital_times_is_none |-> TRUE, hospital_times |-> <<>>,
      hospitalizations |-> <<>>, hospitalization_data_type |-> "none"],
     [hospital_times_is_none |-> FALSE, hospital_times |-> ts,
      hospitalizations |-> [i \in 1..Len(ts) |-> 100 + i],
      hospitalization_data_type |-> "current"],
     [hospital_times_is_none |-> FALSE,
      hospital_times |-> SubSeq(ts, Len(ts) - 1, Len(ts)),
      hospitalizations |-> <<201, 202>>,
      hospitalization_data_type |-> "cumulative"]}

\* ModelFitter(fips): the data of the geography, no fit yet.
ModelFitter(obs, ld) ==
    [is_none |-> FALSE,
     times |-> obs.times,
     observed_new_cases |-> obs.new_cases,
     observed_new_deaths |-> obs.new_deaths,
     hospital_times_is_none |-> ld.hospital_times_is_none,
     hospital_times |-> ld.hospital_times,
     hospitalizations |-> ld.hospitalizations,
     hospitalization_data_type |-> ld.hospitalization_data_type,
     fit_results |-> 0,
     mle_model |-> 0]

\* What a call of mf.fit() can do: raise, return without an MLE model,
\* return with one.
FitOutcomes == {"raises", "returns", "returns_mle"}

\* mf after attempt n of mf.fit() with the given outcome.
fit(m, outcome, n) ==
    IF outcome = "returns_mle" THEN [m EXCEPT !.fit_results = n, !.mle_model = n]
    ELSE IF outcome = "returns" THEN [m EXCEPT !.fit_results = n]
    ELSE m

\* Mutant of SliceBeforeLast: the slice keeps one entry more.
SliceBeforeLastButOne(s, d) == SubSeq(s, 1, IF Len(s) + 1 > d THEN Len(s) + 1 - d ELSE 0)

\* s[:-d] for d >= 1.
SliceBeforeLast(s, d) == SubSeq(s, 1, IF Len(s) > d THEN Len(s) - d ELSE 0)

\* s.max() of a sequence that is not empty.
SeqMax(s) == CHOOSE v \in {s[i] : i \in DOMAIN s} : \A i \in DOMAIN s : s[i] <= v

\* The fields run_model_fitter_for_backtest sets on mf before the fit, for d
\* blinded days: the fitter after them, or the ValueError of max() of an
\* empty array.
BlindedFitter(m, obs, d) ==
    LET ts == SliceBeforeLast(obs.times, d)
        base == [m EXCEPT !.times = ts,
                          !.observed_new_cases = SliceBeforeLast(obs.new_cases, d),
                          !.observed_new_deaths = SliceBeforeLast(obs.new_deaths, d)]
    IN  IF m.hospital_times_is_none THEN [exc |-> "none", mf |-> base]
        ELSE IF Len(ts) = 0 THEN [exc |-> "ValueError", mf |-> base]
        ELSE LET ht == SelectSeq(m.hospital_times, LAMBDA t : t <= SeqMax(ts))
             IN  [exc |-> "none",
                  mf |-> [base EXCEPT
                             !.hospital_times = ht,
                             !.hospitalizations = SubSeq(m.hospitalizations, 1, Len(ht)),
                             !.hospitalization_data_type =
                                 IF Len(ht) = 0 THEN "none" ELSE @]]

\* Mutant of RetryBreaks: the loop has no break.
RetryNeverBreaks(m) == FALSE

\* if mf.mle_model: break
RetryBreaks(m) == m.mle_model # 0

\* run_backtest(fips, observations): the first d of its loop.
InitBacktest ==
    /\ pc = "bt_blind"
    /\ observations \in {ObservationsOf(n) :
                            n \in (MaxObservationDays - 1)..MaxObservationDays}
    /\ loaded \in HospitalLoads(observations.times)
    /\ observation_days_blinded = 1
    /\ mf = NoValue
    /\ fit_calls = <<>>
    /\ projection = NoValue
    /\ historical_projections = <<>>
    /\ BatchIdle
    /\ WorkersIdle
    /\ OutliersIdle
    /\ EngineIdle
    /\ AlignIdle
    /\ InferIdle

\* run_model_fitter_for_backtest up to its loop: mf = ModelFitter(fips) and
\* the blinded fields.
Blind ==
    /\ pc = "bt_blind"
    /\ \E b \in {BlindedFitter(ModelFitter(observations, loaded), observations,
                               observation_days_blinded)} :
          /\ mf' = b.mf
          /\ exc' = b.exc
          /\ pc' = IF b.exc = "none" THEN "bt_fit" ELSE "bt_raised"
    /\ fit_calls' = <<>>
    /\ UNCHANGED <<observations, loaded, observation_days_blinded, projection,
                   historical_projections>>
    /\ UNCHANGED <<window, x_in, x_out, changed_idx, x_again, changed_again>>
    /\ UNCHANGED <<aliasVars, engineVars, alignVars, inferVars>>
    /\ UNCHANGED <<batchVars, workerVars>>

\* One iteration of for n in range(n_retries): mf.fit(), the break when
\* there is an MLE model, the except that prints; after it the next
\* iteration, or the end of the loop.
FitAttempt ==
    /\ pc = "bt_fit"
    /\ Len(fit_calls) < n_retries
    /\ \E outcome \in FitOutcomes :
       \E after \in {fit(mf, outcome, Len(fit_calls) + 1)} :
          /\ mf' = after
          /\ fit_calls' = Append(fit_calls, outcome)
          /\ pc' = IF \/ outcome # "raises" /\ RetryBreaks(after)
                      \/ Len(fit_calls) + 1 = n_retries
                   THEN "bt_project" ELSE "bt_fit"
    /\ UNCHANGED <<observations, loaded, observation_days_blinded, projection,
                   historical_projections>>
    /\ UNCHANGED outlierVars
    /\ UNCHANGED <<aliasVars, engineVars, alignVars, inferVars>>
    /\ UNCHANGED <<batchVars, workerVars>>

\* run_model_fitter_for_backtest after its loop: the predictions from
\* mf.fit_results and mf.mle_model.results, which None does not have.
Project ==
    /\ pc = "bt_project"
    /\ IF mf.fit_results = 0
       THEN /\ exc' = "TypeError"
            /\ pc' = "bt_raised"
            /\ UNCHANGED projection
       ELSE IF mf.mle_model = 0
       THEN /\ exc' = "AttributeError"
            /\ pc' = "bt_raised"
            /\ UNCHANGED projection
       ELSE /\ projection' = [is_none |-> FALSE,
                              fit_results |-> mf.fit_results,
                              mle_model |-> mf.mle_model,
                              has_hosp |-> mf.hospitalization_data_type # "none",
                              observation_days_blinded |-> 0]
            /\ pc' = "bt_record"
            /\ UNCHANGED exc
    /\ UNCHANGED <<observations, loaded, observation_days_blinded, mf, fit_calls,
                   historical_projections>>
    /\ UNCHANGED <<window, x_in, x_out, changed_idx, x_again, changed_again>>
    /\ UNCHANGED <<aliasVars, engineVars, alignVars, inferVars>>
    /\ UNCHANGED <<batchVars, workerVars>>

\* run_backtest after the projection of d: the projection is recorded with
\* its d, and the loop goes on to d + 1 or ends.
Record ==
    /\ pc = "bt_record"
    /\ historical_projections' =
          Append(historical_projections,
                 [projection EXCEPT !.observation_days_blinded = observation_days_blinded])
    /\ IF observation_days_blinded < max_observation_days_blinded
       THEN /\ observation_days_blinded' = observation_days_blinded + 1
            /\ pc' = "bt_blind"
            /\ mf' = NoValue
            /\ fit_calls' = <<>>
            /\ projection' = NoValue
       ELSE /\ pc' = "bt_done"
            /\ UNCHANGED <<observation_days_blinded, mf, fit_calls, projection>>
    /\ UNCHANGED <<observations, loaded>>
    /\ UNCHANGED outlierVars
    /\ UNCHANGED <<aliasVars, engineVars, alignVars, inferVars>>
    /\ UNCHANGED <<batchVars, workerVars>>

NextBacktest == Blind \/ FitAttempt \/ Project \/ Record

SpecBacktest == InitBacktest /\ [][NextBacktest]_vars

(***************************************************************************)
(* Properties of replace_outliers (checked under SpecOutliers)             *)
(***************************************************************************)
\* C6: replace_outliers is idempotent: applied to its own output (same
\* window, threshold and minimum mean) it replaces nothing and changes no
\* value.
C6_SecondPassChangesNothing ==
    pc \in {"returned_again", "raised_again"} =>
        /\ exc = "none"
        /\ changed_again = <<>>
        /\ x_again = x_out

\* C7: in the series of fourteen 5s followed by 500, 6, 5, 5 with window 14
\* the value at index 14 (position 15) becomes 5.5; in general a point whose
\* z-score is above the threshold and whose trailing mean EQUALS
\* min_mean_to_consider is replaced.
C7_MeanEqualToGuardIsReplaced ==
    pc = "returned" =>
        /\ (x_in = SpikeSeries /\ window = 14) => x_out[15] = 11
        /\ \A i \in 1..Len(x_in) :
              ( /\ ZScoreAbove(x_in, window, Z_THRESHOLD, i)
                /\ SeqSum(Lookback(x_in, window, i)) = Half(window * MIN_MEAN_TO_CONSIDER) )
              => \E k \in 1..Len(changed_idx) : changed_idx[k] = i

\* C8: every flagged point is replaced by the average of its left and right
\* neighbours (the left one as the filter left it, the right one not yet
\* visited); a flagged last point is replaced by its left neighbour, and no
\* exception escapes replace_outliers.
C8_FlaggedPointsAreInterpolated ==
    pc \in {"returned", "raised"} =>
        /\ exc = "none"
        /\ \A k \in 1..Len(changed_idx) :
              LET i == changed_idx[k]
              IN  IF i = Len(x_in)
                  THEN x_out[i] = x_out[i - 1]
                  ELSE 2 * x_out[i] = x_out[i - 1] + x_in[i + 1]

(***************************************************************************)
(* Properties of the engine run (checked under Spec)                       *)
(***************************************************************************)
\* get_posteriors has returned a DataFrame of posteriors.
PosteriorsReturned == pc \in {"returned", "done"} /\ ~ret.is_none

\* apply_gaussian_smoothing has returned to get_posteriors.
SmoothingReturned == pc \in {"bayes", "returned", "done"}

\* Position in the observation series of the k-th smoothed value left after
\* truncation.
SourcePos(k) == Len(obs_values) - Len(timeseries) + k

\* v / sum(v) for a table of non-negative values.
NormalizedTable(v) == [i \in DOMAIN v |-> (v[i] * Scale) \div SeqSum(v)]

\* A pattern positive, zero, positive ends at column c of the smoothed series.
RecoversFromZeroAt(c) ==
    /\ c \in 3..Len(timeseries)
    /\ timeseries[c - 2] > 0 /\ timeseries[c - 1] = 0 /\ timeseries[c] > 0

\* C1: every posterior column get_posteriors returns has only non-negative
\* entries and sums to 1 over the R grid (to within one unit of the last
\* place per grid point, the tolerance of the truncated quotients).
C1_PosteriorsAreDistributions ==
    PosteriorsReturned =>
        \A c \in 1..Len(ret.posteriors) :
            /\ \A i \in Grid : ret.posteriors[c][i] >= 0
            /\ Scale - SeqSum(ret.posteriors[c]) \in 0..Len(r_list)

\* C1 witness: a series with a re-initialized day (count back from zero)
\* that is followed by a further day has been processed and returned.
C1_Witness ==
    /\ PosteriorsReturned
    /\ \E c \in 2..(Len(timeseries) - 1) : timeseries[c - 1] = 0 /\ timeseries[c] > 0

\* C2: when the smoothed series goes from a positive count to zero and back
\* to a positive count, the posterior of the day the count recovers is
\* exactly the normalized Gamma(shape=2) prior, and no posterior of that day
\* or of a later day contains NaN.
C2_RecoveryDayIsReinitPrior ==
    PosteriorsReturned =>
        \A c \in 1..Len(timeseries) :
            RecoversFromZeroAt(c) =>
                /\ ret.posteriors[c] = NormalizedTable(Gamma2Pdf)
                /\ \A d \in c..Len(timeseries) : \A i \in Grid : ~IsNaN(ret.posteriors[d][i])

\* C2 witness: a returned series that recovers from zero before its last day.
C2_Witness ==
    /\ PosteriorsReturned
    /\ \E c \in 1..(Len(timeseries) - 1) : RecoversFromZeroAt(c)

\* C3: log(Z) is not added on a degenerate day, so the log-likelihood stored
\* on the engine is finite for every series.
C3_LogLikelihoodIsFinite ==
    (pc \in {"returned", "done"} /\ ~self_log_likelihood.is_none) =>
        self_log_likelihood.finite

\* C4 as stated: for a smoothed series of n >= 2 dates there are n - 1
\* posterior columns, none for the first date, and the first date has no row
\* in the table.
C4_NoColumnForFirstDate ==
    (pc = "done" /\ ~ret.is_none /\ Len(timeseries) >= 2) =>
        /\ Len(ret.posteriors) = Len(timeseries) - 1
        /\ Len(df) = Len(timeseries) - 1
        /\ \A k \in 1..Len(df) : df[k].date # obs_dates[SourcePos(1)]

\* C4 amended: for a smoothed series of n >= 1 dates get_posteriors returns
\* n posterior columns and the n dates of the smoothed values; the column of
\* the first date is the normalized Gamma(shape=2.5) initial prior; the table
\* has one row per date, the first date included, and building it raises
\* nothing.
C4_OneColumnPerDate ==
    /\ pc # "raised"
    /\ PosteriorsReturned =>
        /\ Len(timeseries) >= 1
        /\ Len(ret.posteriors) = Len(timeseries)
        /\ ret.posteriors[1] = NormalizedTable(Gamma25Pdf)
        /\ ret.start_idx = 0 - Len(timeseries)
        /\ Len(ret.dates) = Len(timeseries)
        /\ \A k \in 1..Len(ret.dates) : ret.dates[k] = obs_dates[SourcePos(k)]
        /\ pc = "done" =>
              /\ Len(df) = Len(timeseries)
              /\ \A k \in 1..Len(df) : df[k].date = obs_dates[SourcePos(k)]

\* C4 witness: the table of a series of at least two smoothed dates, whose
\* first row is the row of the first date.
C4_Witness ==
    /\ pc = "done" /\ ~ret.is_none
    /\ Len(timeseries) >= 2
    /\ Len(df) = Len(timeseries)
    /\ df[1].date = obs_dates[SourcePos(1)]

\* Confidence levels in (0, 1).
CILevels == {1000, 2500, 5000, 6800, 9500, 9900}

\* C5: for every posterior column and every pair of levels ci1 < ci2 the
\* interval of ci2 contains the interval of ci1:
\* low(ci2) <= low(ci1) and high(ci1) <= high(ci2).
C5_IntervalsAreNested ==
    PosteriorsReturned =>
        \A c \in 1..Len(ret.posteriors) :
            \A hdi \in {[ci \in CILevels |->
                            highest_density_interval(ret.posteriors[c], ci)]} :
                \A ci1, ci2 \in CILevels :
                    ci1 < ci2 => /\ hdi[ci2].low <= hdi[ci1].low
                                 /\ hdi[ci1].high <= hdi[ci2].high

\* C5 witness: a row of the table whose 95% interval strictly contains its
\* 68% interval.
C5_Witness ==
    /\ pc = "done"
    /\ \E k \in 1..Len(df) :
          /\ df[k].ci_low[2] < df[k].ci_low[1]
          /\ df[k].ci_high[1] < df[k].ci_high[2]

\* The smoothed series has a maximum and it is below the threshold (a NaN is
\* not below anything).
MaxBelowThreshold(sm) ==
    \E i \in 1..Len(sm) :
        /\ \A j \in 1..Len(sm) : ~IsNaN(sm[j]) /\ sm[j] <= sm[i]
        /\ sm[i] < smoothed_max_threshold

\* sm from its first non-zero value on (a NaN is not zero).
FromFirstNonZero(sm) ==
    IF \E i \in 1..Len(sm) : sm[i] # 0
    THEN SubSeq(sm, CHOOSE i \in 1..Len(sm) :
                        sm[i] # 0 /\ \A j \in 1..(i - 1) : sm[j] = 0,
                Len(sm))
    ELSE <<>>

\* C9: the value series apply_gaussian_smoothing returns is empty if the
\* maximum smoothed value is below smoothed_max_threshold, and otherwise the
\* suffix of the smoothed series from its first non-zero value.
C9_TruncationRule ==
    SmoothingReturned =>
        timeseries = IF MaxBelowThreshold(full_smoothed) THEN <<>>
                     ELSE FromFirstNonZero(full_smoothed)

\* C9 witness: a smoothed series that passes the threshold and loses leading
\* zeros.
C9_Witness ==
    /\ SmoothingReturned
    /\ Len(timeseries) > 0
    /\ Len(timeseries) < Len(full_smoothed)

\* C10: the dates, times and values apply_gaussian_smoothing returns have
\* equal length, the i-th date and time are those of the i-th value, and the
\* dates are a suffix of the source dates.
C10_DatesTimesFollowTruncation ==
    SmoothingReturned =>
        /\ Len(dates) = Len(timeseries)
        /\ Len(times) = Len(timeseries)
        /\ Len(dates) <= Len(obs_dates)
        /\ \A i \in 1..Len(timeseries) :
              /\ i <= Len(dates) => dates[i] = obs_dates[SourcePos(i)]
              /\ i <= Len(times) => times[i] = obs_times[SourcePos(i)]

(***************************************************************************)
(* Properties of align_time_series (checked under SpecAlign)               *)
(***************************************************************************)
\* C14: align_time_series applied to two identical series returns shift 0.
C14_IdenticalSeriesGiveShiftZero ==
    (pc = "aligned" /\ series_a = series_b) => shift.value = 0

\* Row k of the differenced series_a and row k of the differenced series_b
\* shifted by i are both present.
OverlapAt(i, k) ==
    /\ k \in 1..(Len(series_a) - 1)
    /\ ~IsNaN(series_a[k]) /\ ~IsNaN(series_a[k + 1])
    /\ k - i \in 1..Len(series_b) /\ k + 1 - i \in 1..Len(series_b)
    /\ ~IsNaN(series_b[k - i]) /\ ~IsNaN(series_b[k + 1 - i])

\* The rows at which shift i leaves both differenced series present.
Overlap(i) == {k \in 1..(Len(series_a) - 1) : OverlapAt(i, k)}

\* C15: align_time_series returns an integer in -21..4, and returns 0 when
\* no candidate shift leaves a row at which both differenced series are
\* present.
C15_ShiftInRangeAndZeroWithoutOverlap ==
    pc = "aligned" =>
        /\ shift.value \in -21..4
        /\ (\A i \in -21..4 : Overlap(i) = {}) => shift.value = 0

\* C15 witness: two series of at least two rows, series_b not all missing,
\* without any overlap, for which 0 was returned.
C15_Witness ==
    /\ pc = "aligned"
    /\ Len(series_a) >= 2
    /\ \E k \in 1..Len(series_b) : ~IsNaN(series_b[k])
    /\ \A i \in -21..4 : Overlap(i) = {}
    /\ shift.value = 0

\* Sum over the rows k..(n-1) of the overlap of shift i of the first
\* difference of series_a (which = "a") or of the shifted series_b.
RECURSIVE OverlapSum(_, _, _)
OverlapSum(which, i, k) ==
    IF k > Len(series_a) - 1 THEN 0
    ELSE (IF ~OverlapAt(i, k) THEN 0
          ELSE IF which = "a" THEN series_a[k + 1] - series_a[k]
          ELSE series_b[k + 1 - i] - series_b[k - i])
         + OverlapSum(which, i, k + 1)

\* The mean over all 2m - 1 lags of the cross-correlation of the two
\* differenced series restricted to the m rows of the overlap: the products
\* of all pairs of entries, summed, over 2m - 1.
MeanCrossCorrelation(i) ==
    [num |-> OverlapSum("a", i, 1) * OverlapSum("b", i, 1),
     den |-> 2 * Cardinality(Overlap(i)) - 1]

\* C16: the returned shift has an overlap and the largest mean
\* cross-correlation of all shifts in -21..4 that have one; of the shifts
\* with the largest score it is the smallest.
C16_ShiftMaximizesMeanCrossCorrelation ==
    (pc = "aligned" /\ \E i \in -21..4 : Overlap(i) # {}) =>
        /\ Overlap(shift.value) # {}
        /\ \A sc \in {[i \in {j \in -21..4 : Overlap(j) # {}} |-> MeanCrossCorrelation(i)]} :
              \A i \in DOMAIN sc :
                  /\ sc[i].num * sc[shift.value].den <= sc[shift.value].num * sc[i].den
                  /\ sc[i].num * sc[shift.value].den = sc[shift.value].num * sc[i].den
                        => shift.value <= i

\* C16 witness: the returned shift is neither 0 nor the smallest shift with
\* an overlap, and some shift with an overlap scores less.
C16_Witness ==
    /\ pc = "aligned"
    /\ shift.value # 0
    /\ Overlap(shift.value) # {}
    /\ \E i \in -21..4 : i < shift.value /\ Overlap(i) # {}
    /\ \E i \in -21..4 :
          /\ Overlap(i) # {}
          /\ MeanCrossCorrelation(i).num * MeanCrossCorrelation(shift.value).den
                < MeanCrossCorrelation(shift.value).num * MeanCrossCorrelation(i).den

(***************************************************************************)
(* Properties of infer_all (checked under SpecInfer)                       *)
(***************************************************************************)
\* infer_all is in or past its loop and has not raised.
InferRunning == pc \in {"infer_loop", "infer_done"}

\* C11: for a hospitalization kind apply_gaussian_smoothing smooths the
\* values without their first two points and returns the dates and the times
\* without their first two points; when the threshold rule removes no point,
\* the dates and the times that get_posteriors returns are as many as the
\* posterior columns.
C11_HospitalizationDropsFirstTwoConsistently ==
    (InferRunning /\ timeseries_type \in HospitalizationTypes) =>
        /\ Len(full_smoothed) = Len(DropFirstTwo(obs_values))
        /\ dates = DropFirstTwo(obs_dates)
        /\ times = DropFirstTwo(obs_times)
        /\ (~ret.is_none /\ Len(timeseries) = Len(full_smoothed)) =>
              /\ Len(ret.dates) = Len(ret.posteriors)
              /\ Len(ret.times) = Len(ret.posteriors)

\* The series of the engine that belongs to a kind.
SeriesOfKind(e, kind) ==
    IF kind = "new_cases"
    THEN [dates |-> DatesOf(e.times), times |-> e.times,
          values |-> e.observed_new_cases]
    ELSE IF kind = "raw_new_cases"
    THEN [dates |-> DatesOf(e.times_raw_new_cases), times |-> e.times_raw_new_cases,
          values |-> e.raw_new_cases]
    ELSE IF kind \in {"new_deaths", "raw_new_deaths"}
    THEN [dates |-> DatesOf(e.times), times |-> e.times,
          values |-> e.observed_new_deaths]
    ELSE [dates |-> DatesOf(e.hospital_times), times |-> e.hospital_times,
          values |-> e.hospitalizations]

\* C12: get_timeseries returns, for every kind, the series of that kind, and
\* the series infer_all took for the kind of its last iteration is the
\* series of that kind.
C12_GetTimeseriesReturnsRequestedKind ==
    InferRunning =>
        /\ \A kind \in TimeseriesTypes :
              get_timeseries(engine, kind) = SeriesOfKind(engine, kind)
        /\ timeseries_type # "" =>
              /\ obs_dates = SeriesOfKind(engine, timeseries_type).dates
              /\ obs_times = SeriesOfKind(engine, timeseries_type).times
              /\ obs_values = SeriesOfKind(engine, timeseries_type).values

\* The kinds whose iteration of the loop is over.
KindsDone == {available_timeseries[p] : p \in 1..(kind_pos - 1)}

\* Smoothing leaves an empty series for the kind.
EmptyAfterSmoothing(kind) ==
    \E src \in {get_timeseries(engine, kind)} :
        apply_gaussian_smoothing(kind, src.dates, src.times, src.values,
                                 smoothed_max_threshold).smoothed = <<>>

\* The columns of the merged table that name the kind.
ColumnsOfKind(kind) == {col \in DOMAIN df_all.data : col.kind = kind}

\* The series of every kind with no point at all.
EmptySource == [dates |-> <<>>, times |-> <<>>, values |-> <<>>]

\* C13: when smoothing leaves an empty series for a kind (an empty input, or
\* every value below the threshold), get_posteriors returns the no-result
\* value and raises nothing; the merged table of infer_all has no column of
\* such a kind and has every column of every other kind whose iteration is
\* over.
C13_EmptyKindIsLeftOut ==
    /\ \A kind \in TimeseriesTypes :
          /\ get_posteriors(kind, EmptySource).ret = NoValue
          /\ get_posteriors(kind, EmptySource).exc = "none"
    /\ (timeseries_type # "" /\ timeseries = <<>>) =>
          /\ ret = NoValue
          /\ exc \in {"none", "AttributeError"}
          /\ pc = "infer_raised" => df_all.is_none
    /\ InferRunning =>
          \A kind \in KindsDone :
              IF EmptyAfterSmoothing(kind)
              THEN df_all.is_none \/ ColumnsOfKind(kind) = {}
              ELSE /\ ~df_all.is_none
                   /\ KindColumns(kind) \subseteq DOMAIN df_all.data

\* C13 witness: infer_all has returned a table; the last kind of the loop was
\* left with an empty series by the threshold and has no result, and another
\* kind has its columns in the table.
C13_Witness ==
    /\ pc = "infer_done"
    /\ timeseries = <<>> /\ SeqSum(obs_values) > 0 /\ ret = NoValue
    /\ ColumnsOfKind(timeseries_type) = {}
    /\ \E kind \in KindsDone : KindColumns(kind) \subseteq DOMAIN df_all.data

\* The last iteration of the loop ran the lag block.
LagFound == InferRunning /\ ~lag.is_none

\* The last rows of a column: the last 21, or all of them when the table of
\* the lagging indicator has fewer than 21 rows.
TrailingWindow(cells, df_len) ==
    IF df_len < AlignWindow \/ Len(cells) <= AlignWindow THEN cells
    ELSE SubSeq(cells, Len(cells) - AlignWindow + 1, Len(cells))

\* C17: the two series handed to align_time_series are the trailing window
\* of the MAP of the cases and of the MAP of the lagging indicator in the
\* merged table.
C17_AlignGetsTrailingWindow ==
    LagFound =>
        /\ lag.series_a =
              TrailingWindow(lag.before.data[ColMAP("new_cases")], Len(df))
        /\ lag.series_b =
              TrailingWindow(lag.before.data[ColMAP(lag.kind)], Len(df))

\* The cell that row i holds when every row moves down by s rows.
ShiftedCell(cells, s, i) == IF i - s \in 1..Len(cells) THEN cells[i - s] ELSE NaN

\* The rows of a set nearest to the end and nearest to the start.
LastRow(S) == CHOOSE x \in S : \A y \in S : y <= x
FirstRow(S) == CHOOSE x \in S : \A y \in S : x <= y

\* The rows before and after row i that hold a value once the rows moved.
HeldBefore(cells, s, i) == {p \in 1..(i - 1) : ~IsNaN(ShiftedCell(cells, s, p))}
HeldAfter(cells, s, i) == {q \in (i + 1)..Len(cells) : ~IsNaN(ShiftedCell(cells, s, q))}

\* Row i of the new column is what the claim says of the old column moved by
\* s rows and filled.
ShiftedAndFilledAt(old, new, s, i) ==
    IF ~IsNaN(ShiftedCell(old, s, i)) THEN new[i] = ShiftedCell(old, s, i)
    ELSE IF HeldBefore(old, s, i) = {} THEN IsNaN(new[i])
    ELSE IF HeldAfter(old, s, i) = {}
    THEN new[i] = ShiftedCell(old, s, LastRow(HeldBefore(old, s, i)))
    ELSE LET p == LastRow(HeldBefore(old, s, i))
             q == FirstRow(HeldAfter(old, s, i))
             vp == ShiftedCell(old, s, p)
             vq == ShiftedCell(old, s, q)
         IN  new[i] = vp + ((vq - vp) * (i - p)) \div (q - p)

\* C18: after the lag s of a lagging indicator is found, every column of the
\* indicator holds at row i the value it held at row i - s, gaps after a
\* value are filled (on the line between two values, with the last value at
\* the end), gaps before the first value stay missing, and the columns of
\* every other kind are as they were.
C18_LagShiftsTheIndicatorOnly ==
    LagFound =>
        /\ df_all.index = lag.before.index
        /\ \A col \in DOMAIN lag.before.data :
              /\ col \in DOMAIN df_all.data
              /\ IF col.kind = lag.kind
                 THEN \A i \in 1..Len(df_all.index) :
                         ShiftedAndFilledAt(lag.before.data[col], df_all.data[col],
                                            lag.shift_in_days, i)
                 ELSE df_all.data[col] = lag.before.data[col]

\* C18 witness: a lag other than 0 was found, a column of the indicator has
\* a row that the shift left empty and that was filled, and the table has
\* columns of another kind.
C18_Witness ==
    /\ LagFound
    /\ lag.shift_in_days # 0
    /\ \E col \in DOMAIN lag.before.data, i \in 1..Len(df_all.index) :
          /\ col = ColMAP(lag.kind)
          /\ IsNaN(ShiftedCell(lag.before.data[col], lag.shift_in_days, i))
          /\ ~IsNaN(df_all.data[col][i])
    /\ \E col \in DOMAIN lag.before.data :
          col.kind # lag.kind /\ \E i \in 1..Len(df_all.index) : ~IsNaN(df_all.data[col][i])

\* get_available_timeseries has returned.
AvailableKnown == pc \in {"infer_loop", "infer_done", "infer_raised"}

\* C19: NEW_HOSPITALIZATIONS is among the available kinds only when the
\* engine has a hospitalization data type and its hospitalization series has
\* more than 3 points.
C19_HospitalizationsNeedMoreThanThreePoints ==
    (AvailableKnown
     /\ \E p \in 1..Len(available_timeseries) :
           available_timeseries[p] = "new_hospitalizations") =>
        /\ engine.hospitalization_data_type # "none"
        /\ Len(engine.hospitalizations) > 3

\* The composite of the MAP columns that the table has: the mean of the two
\* by row when it has both, the one it has otherwise (in halves).
CompositeOf(t) ==
    IF ColMAP("new_cases") \in DOMAIN t.data /\ ColMAP("new_deaths") \in DOMAIN t.data
    THEN [i \in 1..Len(t.index) |->
             NanMean2(t.data[ColMAP("new_cases")][i], t.data[ColMAP("new_deaths")][i])]
    ELSE IF ColMAP("new_cases") \in DOMAIN t.data
    THEN InHalves(t.data[ColMAP("new_cases")])
    ELSE InHalves(t.data[ColMAP("new_deaths")])

\* C20: a returned table with the MAP column of the cases or of the deaths
\* has the composite column, and the composite is the mean of the two MAP
\* columns when both are there and the one that is there otherwise.
C20_CompositeFromWhicheverIsPresent ==
    (pc = "infer_done"
     /\ (ColMAP("new_cases") \in DOMAIN df_all.data
         \/ ColMAP("new_deaths") \in DOMAIN df_all.data)) =>
        /\ ColMAPComposite \in DOMAIN df_all.data
        /\ df_all.data[ColMAPComposite] = CompositeOf(df_all)

\* C21: whenever the returned table has the composite MAP column, it has the
\* composite 95% band, and the band is the 95% bound of the cases on every
\* date, also when the deaths contributed to the composite MAP.
C21_CompositeBandIsTheCasesBand ==
    (pc = "infer_done" /\ ColMAPComposite \in DOMAIN df_all.data) =>
        /\ ColCi95Composite \in DOMAIN df_all.data
        /\ ColCi(95, "new_cases") \in DOMAIN df_all.data
        /\ \A i \in 1..Len(df_all.index) :
              df_all.data[ColCi95Composite][i] = df_all.data[ColCi(95, "new_cases")][i]

\* C21 witness: a returned table whose composite MAP is the mean of the
\* cases and the deaths, on a date where the 95% bound of the deaths is
\* above the 95% bound of the cases.
C21_Witness ==
    /\ pc = "infer_done"
    /\ ColMAPComposite \in DOMAIN df_all.data
    /\ ColMAP("new_deaths") \in DOMAIN df_all.data
    /\ \E i \in 1..Len(df_all.index) :
          /\ ~IsNaN(df_all.data[ColMAP("new_cases")][i])
          /\ ~IsNaN(df_all.data[ColMAP("new_deaths")][i])
          /\ df_all.data[ColCi(95, "new_deaths")][i] > df_all.data[ColCi(95, "new_cases")][i]

\* The last iteration of the loop built the table df of its kind.
KindHasTable == InferRunning /\ timeseries_type # "" /\ ~ret.is_none

\* The value of the series get_timeseries returned at a date.
ObservedAt(d) == obs_values[CHOOSE p \in 1..Len(obs_dates) : obs_dates[p] = d]

NoUsableData ==
    /\ pc \in {"infer_done", "infer_raised"}
    /\ kind_pos > Len(available_timeseries)
    /\ df_all.is_none

\* C24: when no observation kind produces usable data, infer_all returns an
\* absent result and raises no exception.
C24_NoDataIsNotAnError ==
    NoUsableData => (pc = "infer_done" /\ exc = "none")

(***************************************************************************)
(* Further properties of one engine run (checked under Spec)               *)
(***************************************************************************)
\* The values of the R grid.
GridValues == {r_list[i] : i \in Grid}

\* C27: for every posterior column and every confidence level in (0, 1) the
\* bounds of highest_density_interval are values of the R grid and
\* low <= high.
C27_BoundsAreOrderedGridValues ==
    PosteriorsReturned =>
        \A c \in 1..Len(ret.posteriors) :
            \A ci \in CILevels :
                \A hdi \in {highest_density_interval(ret.posteriors[c], ci)} :
                    /\ hdi.low \in GridValues
                    /\ hdi.high \in GridValues
                    /\ hdi.low <= hdi.high

(***************************************************************************)
(* Further properties of replace_outliers (checked under SpecOutliers)     *)
(***************************************************************************)
\* The W values of the input before position i.
OriginalPrior(i) == [k \in 1..window |-> x_in[i - window - 1 + k]]

\* Position i is flagged by the input alone: it has W prior points, its
\* z-score against their mean and population standard deviation is above
\* the threshold ((W x - S)^2 > T^2 (W Q - S^2) with S and Q the sum and the
\* sum of squares of the prior points), and their mean passes the guard.
FlaggedByOriginal(i) ==
    /\ i > window
    /\ LET S == SeqSum(OriginalPrior(i))
           Q == SeqSumSq(OriginalPrior(i))
       IN  /\ window * x_in[i] > S
           /\ (window * x_in[i] - S) * (window * x_in[i] - S)
                 > Z_THRESHOLD * Z_THRESHOLD * (window * Q - S * S)
           /\ S > Half(window * MIN_MEAN_TO_CONSIDER)

\* The positions the first pass took for replacement.
ChangedPositions == {changed_idx[k] : k \in 1..Len(changed_idx)}

\* C29: in one pass, a position is taken for replacement only if the input
\* values of its W prior points and its own flag it, whatever was replaced
\* before it in the pass; when the pass returns, every position the input
\* flags was taken; no position without W prior points is replaced, and a
\* position that was not taken keeps its value.
C29_FlagsComeFromTheOriginalSeries ==
    pc \in {"returned", "raised"} =>
        /\ \A i \in ChangedPositions : FlaggedByOriginal(i)
        /\ pc = "returned" =>
              \A i \in 1..Len(x_in) : FlaggedByOriginal(i) => i \in ChangedPositions
        /\ \A i \in 1..Len(x_in) :
              (i <= window \/ i \notin ChangedPositions) => x_out[i] = x_in[i]

\* C29 witness: the pass replaced a point and then took a later point whose
\* W prior points include the replaced one.
C29_Witness ==
    /\ pc = "returned"
    /\ \E i, j \in ChangedPositions :
          /\ i < j /\ j - i <= window
          /\ x_out[i] # x_in[i]

\* C28: the Series passed to replace_outliers and the array it was built
\* from hold, after the call, the values they held before it.
C28_InputIsNotModified ==
    pc \in {"returned", "raised"} =>
        /\ x_series = x_in
        /\ x_array = x_in

(***************************************************************************)
(* Properties of run_for_fips over a batch (checked under SpecBatch)       *)
(***************************************************************************)
\* What the body of run_for_fips does for a geography on its own: cls(fips)
\* raises when the data cannot be loaded, and infer_all returns or raises.
RunAlone(g) ==
    IF g.loads THEN infer_all(g.engine) ELSE [exc |-> "LoadError", df_all |-> NoValue]

\* Each geography of the batches with what its run does on its own.
AloneResults == [g \in BatchGeographies |-> RunAlone(g)]

\* C23: no exception escapes run_for_fips; a geography whose run raises gets
\* None; every geography of the batch is run; a geography whose run does not
\* raise gets the table its run returns on its own, whatever the other
\* geographies of the batch are.
C23_FailuresAreIsolated ==
    pc \in {"batch", "batch_done", "batch_raised"} =>
        /\ pc # "batch_raised" /\ exc = "none"
        /\ pc = "batch_done" => Len(rt_inferences) = Len(all_fips)
        /\ \A i \in 1..Len(rt_inferences) :
              \A alone \in {AloneResults[all_fips[i]]} :
                  IF alone.exc # "none"
                  THEN rt_inferences[i] = NoValue
                  ELSE rt_inferences[i] = alone.df_all

\* C23 witness: a finished batch in which a geography that cannot be loaded
\* and one whose infer_all raises are each followed by a geography with a
\* table.
C23_Witness ==
    /\ pc = "batch_done"
    /\ Len(all_fips) = 3
    /\ ~all_fips[1].loads
    /\ all_fips[2].loads /\ AloneResults[all_fips[2]].exc = "AttributeError"
    /\ rt_inferences[1] = NoValue /\ rt_inferences[2] = NoValue
    /\ ~rt_inferences[3].is_none

(***************************************************************************)
(* Properties of two interleaved runs (checked under SpecWorkers)          *)
(***************************************************************************)
\* Each engine of the workers with what its infer_all does on its own.
EngineResults == [e \in WorkerEngines |-> infer_all(e)]

\* A run that ended ended as it ends on its own: the same table, or a raise.
EndsAsAlone(w) ==
    \A alone \in {EngineResults[w_engine[w]]} :
        /\ w_pc[w] = "infer_done" => alone.exc = "none" /\ w_df_all[w] = alone.df_all
        /\ w_pc[w] = "infer_raised" => alone.exc # "none"

\* The files both workers have written.
FilesOfBoth == {a.name : a \in {b \in files : \E c \in files : c.name = b.name /\ c.by # b.by}}

\* C25: in every interleaving of the two runs, each run returns the table it
\* returns on its own, and no file is written by both runs.
C25_RunsShareNothing ==
    pc = "workers" =>
        /\ \A w \in Workers : EndsAsAlone(w)
        /\ FilesOfBoth = {}

(***************************************************************************)
(* Properties of the backtest (checked under SpecBacktest)                 *)
(***************************************************************************)
\* The fitter holds blinded data: between the blinding and the projection.
FitterHasData == pc \in {"bt_fit", "bt_project", "bt_record"}

\* The number of entries of a series of n that are not among its last d.
Unblinded(n, d) == IF n > d THEN n - d ELSE 0

\* The sequence kept is the sequence whole without its last d entries.
WithoutLast(kept, whole, d) ==
    /\ Len(kept) = Unblinded(Len(whole), d)
    /\ \A i \in 1..Len(kept) : kept[i] = whole[i]

\* C26: whenever the fitter is run in run_backtest, it is for a d of
\* 1..max_observation_days_blinded, each d in turn, and its times, new cases
\* and new deaths are the observations without their last d entries; its
\* hospital times are the loaded ones that are not later than the last
\* unblinded time, with as many values, and the data type is None when none
\* is left.
C26_FitterSeesBlindedData ==
    /\ FitterHasData =>
          \A d \in {observation_days_blinded} :
             /\ d \in 1..max_observation_days_blinded
             /\ Len(historical_projections) = d - 1
             /\ WithoutLast(mf.times, observations.times, d)
             /\ WithoutLast(mf.observed_new_cases, observations.new_cases, d)
             /\ WithoutLast(mf.observed_new_deaths, observations.new_deaths, d)
             /\ ~mf.hospital_times_is_none =>
                   /\ Len(mf.times) > 0
                   /\ {mf.hospital_times[j] : j \in DOMAIN mf.hospital_times} =
                         {t \in {loaded.hospital_times[j] : j \in DOMAIN loaded.hospital_times} :
                             t <= mf.times[Len(mf.times)]}
                   /\ Len(mf.hospitalizations) = Len(mf.hospital_times)
                   /\ Len(mf.hospital_times) = 0 => mf.hospitalization_data_type = "none"
    /\ \A i \in DOMAIN historical_projections :
          historical_projections[i].observation_days_blinded = i
    /\ pc = "bt_done" => Len(historical_projections) = max_observation_days_blinded

\* C26 witness: the fitter is run for d = 2 on a geography whose loaded
\* hospital times are the last two days: none is left and the type is None.
C26_Witness ==
    /\ pc = "bt_fit"
    /\ observation_days_blinded = 2
    /\ fit_calls # <<>>
    /\ Len(mf.times) = Len(observations.times) - 2
    /\ loaded.hospitalization_data_type = "cumulative"
    /\ mf.hospital_times = <<>> /\ mf.hospitalization_data_type = "none"

\* C30: the fit is attempted at most n_retries times; no attempt follows one
\* that returned with an MLE model; an attempt that raised or returned
\* without a model is followed by the next one as long as there is one; and
\* a projection is computed only from the fit of the last attempt, which
\* returned with an MLE model.
C30_RetriesStopAtTheFirstModel ==
    pc \in {"bt_fit", "bt_project", "bt_record", "bt_done", "bt_raised"} =>
        /\ Len(fit_calls) <= n_retries
        /\ \A i \in 1..(Len(fit_calls) - 1) : fit_calls[i] # "returns_mle"
        /\ pc # "bt_fit" /\ fit_calls # <<>> =>
              \/ fit_calls[Len(fit_calls)] = "returns_mle"
              \/ Len(fit_calls) = n_retries
        /\ pc = "bt_fit" => exc = "none"
        /\ ~projection.is_none =>
              /\ fit_calls # <<>>
              /\ fit_calls[Len(fit_calls)] = "returns_mle"
              /\ projection.mle_model = Len(fit_calls)
        /\ pc \in {"bt_record", "bt_done"} => ~projection.is_none

\* C30 witness: a projection computed from the third attempt, after one
\* attempt that raised and one that returned without a model.
C30_Witness ==
    /\ pc = "bt_record"
    /\ fit_calls = <<"raises", "returns", "returns_mle">>
    /\ projection.mle_model = 3

====
